---------------------------- MODULE Spec2Model ----------------------------
(***************************************************************************)
(* A model of the V2V simulator core (src/src/SimulationEngine): the       *)
(* engine's tick loop, the broadcast medium, the per-vehicle Protocol      *)
(* (send / receive / process / manage) and the vehicle bookkeeping.        *)
(*                                                                         *)
(* Two clocks exist in the source and both are modelled:                   *)
(*   env_now  the simulated clock (simpy env.now), counted in ticks;       *)
(*   now      the wall clock read by time.time(), counted in abstract      *)
(*            quanta.  It never runs backwards and may advance between     *)
(*            any two steps of the loop and inside Protocol.send.          *)
(* The CONFIG record is an input of the program; the model instantiates    *)
(* it with small values that keep the order of the source's values         *)
(* (RETRANSMIT < CONNECTION_TIME, SIMULATION_TIMESTEP < BSM_INTERVAL); a   *)
(* quantum of the wall clock is coarser than RETRANSMIT, which is 0 then.  *)
(***************************************************************************)
EXTENDS Integers, Sequences, FiniteSets, TLC

VARIABLES
    CONFIG,             \* config.py: the configuration record
    now,                \* time.time(): wall clock
    env_now,            \* SimulationEngine.env.now, in ticks
    pc,                 \* position in SimulationEngine.simulation_loop
    duration,           \* the argument of SimulationEngine.run
    position,           \* Vehicle.position[0] of every vehicle
    position_y,         \* Vehicle.position[1]
    velocity,           \* Vehicle.velocity
    acceleration,       \* Vehicle.acceleration
    target_velocity,    \* Vehicle.target_velocity
    emergency_braking,  \* Vehicle.emergency_braking
    last_bsm_time,      \* Vehicle.last_bsm_time
    vehicle_map,        \* Vehicle.vehicle_map: peer id -> VehicleState
    outgoing_cwms,      \* Protocol.outgoing_cwms: peer id -> CWMConnection
    incoming_messages,  \* Protocol.incoming_messages: the heap of the PriorityQueue
    network_sim,        \* NetworkSimulator: all_messages, lost_packets, total_packets
    total_bsm_count,    \* SimulationEngine.total_bsm_count
    total_cwm_count,    \* SimulationEngine.total_cwm_count
    app_cwms,           \* history: the CWMs Protocol.process returned to each vehicle
    last_step,          \* history: what the last step of the loop did
    log,                \* history: what happened so far in the run
    callbacks           \* SimulationEngine.message_callbacks and update_callbacks

vars == <<CONFIG, now, env_now, pc, duration, position, velocity, acceleration,
          target_velocity, emergency_braking, last_bsm_time,
          vehicle_map, outgoing_cwms, incoming_messages, network_sim,
          total_bsm_count, total_cwm_count, app_cwms, last_step, position_y, log,
          callbacks>>

-----------------------------------------------------------------------------
(* Bounds of the model *)

\* the wall clock stops advancing at this value
MaxClock == 3

-----------------------------------------------------------------------------
(* The fleet and the inputs *)

\* VehicleManager.vehicles in insertion order (create_vehicle: "V001", "V002", ...)
Fleet == <<"V001", "V002">>

Vehicles == {Fleet[i] : i \in DOMAIN Fleet}

\* x coordinates vehicles are spawned at in the short runs (y is 0 for all)
Positions == {0, 300, 301}

\* outcomes of random.randint(1, 100) that the loss sampler distinguishes
Draws == {1, 100}

\* The configurations runs are started with.  Units: metres and seconds on the
\* simulated clock (a tick of SIMULATION_TIMESTEP is 1 s here), quanta on the
\* wall clock (RETRANSMIT and CONNECTION_TIME), PACKET_LOSS in percent.
Configs ==
    { [COMMUNICATION_RANGE |-> 300, BSM_INTERVAL |-> 2, SIMULATION_TIMESTEP |-> 1,
       RETRANSMIT |-> 0, CONNECTION_TIME |-> 1, PACKET_LOSS |-> 5,
       MAX_DECELERATION |-> 8, MAX_ACCELERATION |-> 3,
       COLLISION_TIME_THRESHOLD |-> 3, VEHICLE_LENGTH |-> 4, VEHICLE_WIDTH |-> 2] }

\* The runs explored: spawn positions and velocities of the fleet and the
\* duration handed to run().  Two long runs of V001 driving up to the parked
\* V002, from 50 m behind (it passes V002 while braking) and from 300 m behind
\* (it stays behind), and short runs from every placement with either vehicle
\* driving.  A vehicle is spawned parked or at 12 m/s.
Runs ==
    { [position |-> [v \in Vehicles |-> IF v = Fleet[1] THEN 250 ELSE 300],
       position_y |-> [v \in Vehicles |-> 0],
       velocity |-> [v \in Vehicles |-> IF v = Fleet[1] THEN 12 ELSE 0],
       duration |-> 7],
      [position |-> [v \in Vehicles |-> IF v = Fleet[1] THEN 0 ELSE 300],
       position_y |-> [v \in Vehicles |-> 0],
       velocity |-> [v \in Vehicles |-> IF v = Fleet[1] THEN 12 ELSE 0],
       duration |-> 6] }
    \cup
    { [position |-> p, position_y |-> [v \in Vehicles |-> 0], velocity |-> w,
       duration |-> 5] :
         p \in [Vehicles -> Positions], w \in [Vehicles -> {0, 12}] }

-----------------------------------------------------------------------------
(* Python dict helpers *)

DictSet(d, k, v) == [x \in (DOMAIN d) \cup {k} |-> IF x = k THEN v ELSE d[x]]

DictDel(d, k) == [x \in (DOMAIN d) \ {k} |-> d[x]]

EmptyDict == [x \in {} |-> 0]

-----------------------------------------------------------------------------
(* message.py *)

EMERGENCY == 0

NORMAL == 1

\* One record shape for the three dataclasses; a field a class does not have
\* holds -1 / "" and is constant for that class.  oid is the identity of the
\* Python object (CWM objects are mutated after they were handed out); it is
\* not a field of the message.
Message(type, prio, vid, ts, seq, target, x, oid) ==
    [message_type |-> type, priority |-> prio, vehicle_id |-> vid, timestamp |-> ts,
     sequence_number |-> seq, target_vehicle_id |-> target, position_x |-> x,
     position_y |-> -1, velocity |-> -1, acceleration |-> 0, oid |-> oid]

\* create_bsm(vehicle): x is vehicle.position[0]; the other kinematic fields
\* are read off the vehicle as well (heading, length and width are the same
\* for every vehicle and left out)
create_bsm(vehicle, x, t) ==
    [Message("BSM", NORMAL, vehicle, t, -1, "", x, 0)
        EXCEPT !.position_y = position_y[vehicle],
               !.velocity = velocity[vehicle],
               !.acceleration = acceleration[vehicle]]

create_cwm(vehicle, sequence_number, target_vehicle_id, t, oid) ==
    Message("CWM", EMERGENCY, vehicle, t, sequence_number, target_vehicle_id, -1, oid)

create_ack(vehicle, sequence_number, target_vehicle_id, t) ==
    Message("ACK", NORMAL, vehicle, t, sequence_number, target_vehicle_id, -1, 0)

\* V2VMessage.__lt__
Lt(self, other) ==
    IF self.priority # other.priority
    THEN self.priority < other.priority
    ELSE self.timestamp < other.timestamp

\* hasattr(message, 'target_vehicle_id')
HasTarget(message) == message.message_type \in {"CWM", "ACK"}

get_message_hash_undated(message) ==
    <<message.message_type, message.priority, message.vehicle_id,
      message.sequence_number, message.target_vehicle_id, message.position_x,
      message.position_y, message.velocity, message.acceleration>>

\* get_message_hash: SHA-256 over the serialised fields (all of them, timestamp
\* included; oid is no field).  The digest is modelled by the serialisation it
\* is computed from: equal digests iff equal field values.
get_message_hash(message) ==
    <<message.message_type, message.priority, message.vehicle_id, message.timestamp,
      message.sequence_number, message.target_vehicle_id, message.position_x,
      message.position_y, message.velocity, message.acceleration>>

-----------------------------------------------------------------------------
(* queue.PriorityQueue: a binary heap (heapq) kept in a list.  Indices are    *)
(* 0-based in the algorithm and 1-based in the sequence.                      *)

RECURSIVE SiftDown(_, _, _, _)
\* heapq._siftdown(heap, startpos, pos) with newitem taken out of heap[pos]
SiftDown(heap, startpos, pos, newitem) ==
    IF pos > startpos
    THEN LET parentpos == (pos - 1) \div 2
             parent == heap[parentpos + 1]
         IN IF Lt(newitem, parent)
            THEN SiftDown([heap EXCEPT ![pos + 1] = parent], startpos, parentpos, newitem)
            ELSE [heap EXCEPT ![pos + 1] = newitem]
    ELSE [heap EXCEPT ![pos + 1] = newitem]

RECURSIVE SiftUp(_, _, _)
\* heapq._siftup(heap, pos): bubble the smaller child up to a leaf, then sift
\* newitem down from there
SiftUp(heap, pos, newitem) ==
    LET endpos == Len(heap)
        childpos == 2 * pos + 1
        rightpos == childpos + 1
        child == IF rightpos < endpos /\ ~Lt(heap[childpos + 1], heap[rightpos + 1])
                 THEN rightpos ELSE childpos
    IN IF childpos < endpos
       THEN SiftUp([heap EXCEPT ![pos + 1] = heap[child + 1]], child, newitem)
       ELSE SiftDown(heap, 0, pos, newitem)

\* PriorityQueue.put: heappush
HeapPut(heap, item) == SiftDown(Append(heap, item), 0, Len(heap), item)

\* PriorityQueue.get(False) on a non-empty queue: the item heappop returns
HeapTop(heap) == heap[1]

\* ... and the heap it leaves
HeapPop(heap) ==
    LET lastelt == heap[Len(heap)]
        rest == SubSeq(heap, 1, Len(heap) - 1)
    IN IF Len(rest) = 0 THEN rest ELSE SiftUp(rest, 0, lastelt)

-----------------------------------------------------------------------------
(* network_simulator.py *)

NetworkSimulator == [all_messages |-> <<>>, lost_packets |-> 0, total_packets |-> 0]

\* self.all_messages[message_hash] = value on an insertion-ordered dict
DictPut(all_messages, entry) ==
    IF \E i \in DOMAIN all_messages : all_messages[i].message_hash = entry.message_hash
    THEN [i \in DOMAIN all_messages |->
            IF all_messages[i].message_hash = entry.message_hash
            THEN entry ELSE all_messages[i]]
    ELSE Append(all_messages, entry)

Dropped_below(r) == r < CONFIG.PACKET_LOSS

\* the loss sampler: (random.randint(1, 100) / 100) <= CONFIG.PACKET_LOSS
Dropped(r) == r <= CONFIG.PACKET_LOSS

in_range_exclusive(source_vehicle, dest_vehicle) ==
    LET x_dist == position[dest_vehicle] - position[source_vehicle]
        y_dist == position_y[dest_vehicle] - position_y[source_vehicle]
    IN x_dist * x_dist + y_dist * y_dist
          < CONFIG.COMMUNICATION_RANGE * CONFIG.COMMUNICATION_RANGE

\* in_range: sqrt(x_dist**2 + y_dist**2) > COMMUNICATION_RANGE is out of range
in_range(source_vehicle, dest_vehicle) ==
    LET x_dist == position[dest_vehicle] - position[source_vehicle]
        y_dist == position_y[dest_vehicle] - position_y[source_vehicle]
    IN ~(x_dist * x_dist + y_dist * y_dist
            > CONFIG.COMMUNICATION_RANGE * CONFIG.COMMUNICATION_RANGE)

\* NetworkSimulator.broadcast_message; r is the sampler's draw, tick the
\* tick of the call and reach the vehicles in range of the sender at the time
\* of the call (history, kept with the entry)
broadcast_message(net, send_vehicle, message, message_hash, r) ==
    LET counted == [net EXCEPT !.total_packets = @ + 1]
    IN IF Dropped(r)
       THEN [counted EXCEPT !.lost_packets = @ + 1]
       ELSE [counted EXCEPT !.all_messages =
                DictPut(@, [message_hash |-> message_hash,
                            send_vehicle |-> send_vehicle,
                            message |-> message,
                            tick |-> env_now,
                            reach |-> {v \in Vehicles \ {send_vehicle} :
                                          in_range(v, send_vehicle)}])]

-----------------------------------------------------------------------------
(* protocol.py *)

CWMConnection(send_seq_num, recv_seq_num) ==
    [cwms |-> <<>>, transmit_time |-> 0, last_use |-> 0,
     send_seq_num |-> send_seq_num, recv_seq_num |-> recv_seq_num]

\* Protocol.get_seq_num
get_seq_num(conns, target_vehicle_id) ==
    IF target_vehicle_id \notin DOMAIN conns
    THEN 0
    ELSE conns[target_vehicle_id].send_seq_num

\* dict.get(key) followed by the "== None: create and store" of send and process
GetOrCreate(conns, key) ==
    IF key \in DOMAIN conns THEN conns[key] ELSE CWMConnection(0, 0)

\* Protocol.send.  message carries the timestamp it was created with; the
\* digest is taken from it as it is (line 50).  t is the wall clock read by
\* the body afterwards (lines 61 and 72), r the loss sampler's draw.  The
\* queue and the medium hold the same object, so both see the new timestamp.
send(conns, net, vehicle, message, t, r) ==
    LET message_hash == get_message_hash(message)
        stamped == [message EXCEPT !.timestamp = t]
    IN IF message.message_type = "CWM"
       THEN LET target == message.target_vehicle_id
                queued == [GetOrCreate(conns, target) EXCEPT
                              !.last_use = t, !.cwms = Append(@, message)]
            IN IF Len(queued.cwms) > 1
               THEN [conns |-> DictSet(conns, target, queued), net |-> net]
               ELSE [conns |-> DictSet(conns, target,
                                  [queued EXCEPT !.transmit_time = queued.last_use,
                                                 !.cwms = <<stamped>>]),
                     net |-> broadcast_message(net, vehicle, stamped, message_hash, r)]
       ELSE [conns |-> conns,
             net |-> broadcast_message(net, vehicle, stamped, message_hash, r)]

\* Protocol.receive: the heap after the call
receive(heap, vehicle, message, message_hash) ==
    IF HasTarget(message) /\ vehicle # message.target_vehicle_id
    THEN heap
    ELSE IF get_message_hash(message) # message_hash
         THEN heap
         ELSE HeapPut(heap, message)

\* line 117: a CWM that arrived ahead of the expected one is discarded
out_of_order_strict(cwm, recv_seq_num) == cwm.sequence_number # recv_seq_num

out_of_order_by_two(cwm, recv_seq_num) == cwm.sequence_number > recv_seq_num + 1

out_of_order(cwm, recv_seq_num) == cwm.sequence_number > recv_seq_num

\* line 139: the acknowledgement is for the expected sequence number
ack_matches_cumulative(ack, send_seq_num) == ack.sequence_number <= send_seq_num

ack_matches(ack, send_seq_num) == ack.sequence_number = send_seq_num

\* What one pass of the loop of Protocol.process yields: the connection table,
\* the medium, the wall clock, the message returned to the caller (<<>> when the
\* loop goes on), whether deque.popleft raised, and which branch ran.
Outcome(conns, net, t, returned, raised, branch) ==
    [conns |-> conns, net |-> net, now |-> t, returned |-> returned,
     raised |-> raised, branch |-> branch]

\* Protocol.process, lines 106-128: a CollisionWarningMessage was dequeued at
\* wall-clock time t0; t and r are handed to send.
process_cwm(conns, net, vehicle, cwm, t0, t, r) ==
    LET opened == DictSet(conns, cwm.vehicle_id,
                          [GetOrCreate(conns, cwm.vehicle_id) EXCEPT !.last_use = t0])
        recv_seq_num == opened[cwm.vehicle_id].recv_seq_num
        sent == send(opened, net, vehicle,
                     create_ack(vehicle, cwm.sequence_number, cwm.vehicle_id, t0), t, r)
    IN IF out_of_order(cwm, recv_seq_num)
       THEN Outcome(opened, net, t0, <<>>, FALSE, "cwm_future")
       ELSE IF cwm.sequence_number = recv_seq_num
            THEN Outcome([sent.conns EXCEPT ![cwm.vehicle_id].recv_seq_num = @ + 1],
                         sent.net, t, <<cwm>>, FALSE, "cwm_expected")
            ELSE Outcome(sent.conns, sent.net, t, <<>>, FALSE, "cwm_duplicate")

stamp_kept(next_cwm, t) == next_cwm

\* line 147: next_cwm.timestamp = time.time()
stamp(next_cwm, t) == [next_cwm EXCEPT !.timestamp = t]

\* Protocol.process, lines 130-148: an AcknowledgementMessage was dequeued at t0
process_ack(conns, net, vehicle, ack, t0, r) ==
    IF ack.vehicle_id \notin DOMAIN conns
    THEN Outcome(conns, net, t0, <<>>, FALSE, "ack_no_connection")
    ELSE LET used == [conns[ack.vehicle_id] EXCEPT !.last_use = t0]
             advanced == [used EXCEPT !.send_seq_num = @ + 1]
             popped == [advanced EXCEPT !.cwms = Tail(@)]
             next_cwm == stamp(Head(popped.cwms), t0)
             resent == [popped EXCEPT !.transmit_time = t0,
                                      !.cwms = <<next_cwm>> \o Tail(@)]
         IN IF ~ack_matches(ack, used.send_seq_num)
            THEN Outcome(DictSet(conns, ack.vehicle_id, used), net, t0, <<>>, FALSE,
                         "ack_ignored")
            ELSE IF Len(advanced.cwms) = 0
                 THEN \* cwms.popleft() on an empty deque: IndexError leaves process
                      Outcome(DictSet(conns, ack.vehicle_id, advanced), net, t0, <<>>,
                              TRUE, "ack_empty_queue")
                 ELSE IF Len(popped.cwms) = 0
                      THEN Outcome(DictSet(conns, ack.vehicle_id, popped), net, t0,
                                   <<>>, FALSE, "ack_last")
                      ELSE Outcome(DictSet(conns, ack.vehicle_id, resent),
                                   broadcast_message(net, vehicle, next_cwm,
                                                     get_message_hash(next_cwm), r),
                                   t0, <<>>, FALSE, "ack_next")

\* One pass of the while loop of Protocol.process over the dequeued message
process(conns, net, vehicle, message, t0, t, r) ==
    IF message.message_type = "CWM"
    THEN process_cwm(conns, net, vehicle, message, t0, t, r)
    ELSE IF message.message_type = "ACK"
         THEN process_ack(conns, net, vehicle, message, t0, r)
         ELSE Outcome(conns, net, t0, <<message>>, FALSE, "bsm")

\* cwm.timestamp = time.time() of a retransmission, seen through the other
\* references to that object: messages is a sequence of messages (a heap)
Restamp(messages, oid, t) ==
    [i \in DOMAIN messages |->
        IF messages[i].message_type = "CWM" /\ messages[i].oid = oid
        THEN [messages[i] EXCEPT !.timestamp = t]
        ELSE messages[i]]

\* ... and the same for the entries the medium still holds
RestampPending(all_messages, oid, t) ==
    [i \in DOMAIN all_messages |->
        IF all_messages[i].message.message_type = "CWM"
           /\ all_messages[i].message.oid = oid
        THEN [all_messages[i] EXCEPT !.message.timestamp = t]
        ELSE all_messages[i]]

unused_inclusive(conn, t) == (t - conn.last_use) >= CONFIG.CONNECTION_TIME

\* line 165: the connection has not been used for the configured connection time
unused(conn, t) == (t - conn.last_use) > CONFIG.CONNECTION_TIME

unacknowledged_inclusive(conn, t) == (t - conn.transmit_time) >= CONFIG.RETRANSMIT

\* line 174: the head CWM has not been acknowledged in the configured
\* retransmission time
unacknowledged(conn, t) == (t - conn.transmit_time) > CONFIG.RETRANSMIT

\* Protocol.manage, the body of the loop for one connection: what it does to
\* the connection (<<>> when deleted), to the medium and, through the shared
\* CWM object, to the inbound queues of the vehicles
manage_connection(conn, net, heaps, vehicle, t, r) ==
    IF Len(conn.cwms) = 0
    THEN IF unused(conn, t)
         THEN [conn |-> <<>>, net |-> net, heaps |-> heaps]
         ELSE [conn |-> <<conn>>, net |-> net, heaps |-> heaps]
    ELSE IF unacknowledged(conn, t)
         THEN LET cwm == [Head(conn.cwms) EXCEPT !.timestamp = t]
                  aliased == [net EXCEPT !.all_messages = RestampPending(@, cwm.oid, t)]
              IN [conn |-> <<[conn EXCEPT !.transmit_time = t,
                                          !.cwms = <<cwm>> \o Tail(@)]>>,
                  net |-> broadcast_message(aliased, vehicle, cwm,
                                            get_message_hash(cwm), r),
                  heaps |-> [v \in DOMAIN heaps |-> Restamp(heaps[v], cwm.oid, t)]]
         ELSE [conn |-> <<conn>>, net |-> net, heaps |-> heaps]

RECURSIVE manage(_, _, _, _, _, _, _)
\* Protocol.manage: the loop over list(self.outgoing_cwms.items()), keys being
\* the not yet visited keys, draws the sampler's draw for each key
manage(conns, net, heaps, vehicle, keys, t, draws) ==
    IF keys = <<>>
    THEN [conns |-> conns, net |-> net, heaps |-> heaps]
    ELSE LET key == Head(keys)
             done == manage_connection(conns[key], net, heaps, vehicle, t, draws[key])
         IN manage(IF done.conn = <<>> THEN DictDel(conns, key)
                   ELSE DictSet(conns, key, done.conn[1]),
                   done.net, done.heaps, vehicle, Tail(keys), t, draws)

\* the keys of a connection table in the order the loop visits them
Keys(conns) == SelectSeq(Fleet, LAMBDA v : v \in DOMAIN conns)

-----------------------------------------------------------------------------
(* vehicle.py *)

\* VehicleState(position, velocity, acceleration, heading, length, width): the
\* timestamp is time.time() at construction
VehicleState(x, y, v, a, t) ==
    [timestamp |-> t, position_x |-> x, position_y |-> y, velocity |-> v,
     acceleration |-> a]

\* np.clip(a, a_min, a_max)
clip(a, a_min, a_max) == IF a < a_min THEN a_min ELSE IF a > a_max THEN a_max ELSE a

Max(a, b) == IF a >= b THEN a ELSE b

update_acceleration_reversed(braking, target, v) ==
    IF braking
    THEN CONFIG.MAX_DECELERATION
    ELSE clip((target - v) * 2, -CONFIG.MAX_DECELERATION, CONFIG.MAX_ACCELERATION)

\* Vehicle.update_physics, lines 56-69: the acceleration chosen
update_acceleration(braking, target, v) ==
    IF braking
    THEN -CONFIG.MAX_DECELERATION
    ELSE LET velocity_error == target - v
             desired_acceleration == velocity_error * 2
         IN clip(desired_acceleration, -CONFIG.MAX_DECELERATION, CONFIG.MAX_ACCELERATION)

update_velocity_unclamped(v, a, dt) == v + a * dt

\* Vehicle.update_physics, lines 72-73: the velocity after the step
update_velocity(v, a, dt) == Max(0, v + a * dt)

\* Vehicle.update_physics, lines 76-77: the x coordinate after the step
\* (direction is the unit vector pointing east)
update_position(x, v, dt) == x + 1 * v * dt

prune_vehicle_map_never(map, t) == map

\* Vehicle.manage, lines 119-121: the belief-map after the prune
prune_vehicle_map(map, t) ==
    [id \in {i \in DOMAIN map : ~((t - map[i].timestamp) > CONFIG.CONNECTION_TIME)}
        |-> map[id]]

should_send_bsm_early(vehicle, current_time) ==
    (current_time - last_bsm_time[vehicle]) >= CONFIG.BSM_INTERVAL - 1

\* Vehicle.should_send_bsm
should_send_bsm(vehicle, current_time) ==
    (current_time - last_bsm_time[vehicle]) >= CONFIG.BSM_INTERVAL

\* detect_potential_collisions, lines 224-228: the peers of the belief-map the
\* scan does not skip for being level or behind.  (Lane overlap and the TTC of
\* each are decided by kinematic state that this part of the model leaves
\* open: any of these peers may be the first one found dangerous, or none.)
FrontPeers(vehicle) ==
    {id \in DOMAIN vehicle_map[vehicle] :
        ~(vehicle_map[vehicle][id].position_x <= position[vehicle])}

-----------------------------------------------------------------------------
(* vehicle.py: Vehicle.compute_ttc.  The roots of the gap polynomial are kept  *)
(* exact: Root(b, d, s, a) stands for (-b + s * sqrt(d)) / a when d >= 0 and   *)
(* for -b/a + s * i * sqrt(-d) / |a| when d < 0 (a # 0, s is 1 or -1).         *)

Root(b, d, s, a) == [b |-> b, d |-> d, s |-> s, a |-> a]

Sign(x) == IF x > 0 THEN 1 ELSE IF x < 0 THEN -1 ELSE 0

\* the sign of -b + s * sqrt(d), d >= 0
NumSign(r) ==
    IF r.s = 1
    THEN IF r.b < 0 THEN 1 ELSE Sign(r.d - r.b * r.b)
    ELSE IF r.b > 0 THEN -1 ELSE Sign(r.b * r.b - r.d)

\* root > 0 as numpy evaluates it: on a real array the usual order, on a
\* complex array the lexicographic order of (real part, imaginary part)
Positive(r) ==
    IF r.d >= 0
    THEN NumSign(r) * Sign(r.a) > 0
    ELSE \/ Sign(-r.b * r.a) > 0
         \/ r.b = 0 /\ r.s = 1

\* root < x for a whole number x, in the same order
Below(r, x) ==
    LET shifted == Root(r.b + x * r.a, r.d, r.s, r.a)
    IN IF r.d >= 0
       THEN NumSign(shifted) * Sign(shifted.a) < 0
       ELSE \/ Sign(-shifted.b * shifted.a) < 0
            \/ shifted.b = 0 /\ shifted.s = -1

\* np.roots(p) for p = [p1, p2, p3]: leading and trailing zeros are stripped,
\* the roots of what is left are the eigenvalues of its companion matrix, in
\* the order LAPACK returns them for a matrix of order 2 (real pair: the root
\* (-p2 - sign(p2) * sqrt(disc)) / (2 p1) first; complex pair: the root with
\* the positive imaginary part first), and one zero is appended for every
\* trailing zero stripped
np_roots(p) ==
    LET zero == Root(0, 0, 1, 1)
        disc == p[2] * p[2] - 4 * p[1] * p[3]
        first == IF disc >= 0 THEN (IF p[2] < 0 THEN 1 ELSE -1) ELSE 1
    IN IF p[1] # 0
       THEN IF p[3] # 0
            THEN <<Root(p[2], disc, first, 2 * p[1]), Root(p[2], disc, -first, 2 * p[1])>>
            ELSE IF p[2] # 0
                 THEN <<Root(p[2], 0, 1, p[1]), zero>>
                 ELSE <<zero, zero>>
       ELSE IF p[2] # 0
            THEN IF p[3] # 0
                 THEN <<Root(p[3], 0, 1, p[2])>>
                 ELSE <<zero>>
            ELSE <<>>

\* the coefficient list of compute_ttc, every coefficient doubled (np.roots of
\* a list and of its double are the same; the doubling keeps the halved
\* acceleration difference whole)
coeff(vehicle, front_vehicle) ==
    LET bumper_to_bumper_distance ==
            (front_vehicle.position_x - (CONFIG.VEHICLE_LENGTH \div 2))
                - (position[vehicle] + (CONFIG.VEHICLE_LENGTH \div 2))
    IN <<front_vehicle.acceleration - acceleration[vehicle],
         2 * (front_vehicle.velocity - velocity[vehicle]),
         2 * bumper_to_bumper_distance>>

\* roots[(roots > 0) & np.isfinite(roots)]  (every root kept here is finite)
positive_roots(roots) == SelectSeq(roots, Positive)

\* Vehicle.compute_ttc: <<>> stands for None, <<time[0]>> for a result
compute_ttc(vehicle, front_vehicle) ==
    LET time == positive_roots(np_roots(coeff(vehicle, front_vehicle)))
    IN IF Len(time) = 0 THEN <<>> ELSE <<time[1]>>

-----------------------------------------------------------------------------
(* vehicle.py: VehicleManager.detect_potential_collisions *)

\* sorted(vehicle_map.items(), key = position[0]): the peers of the belief-map
\* by ascending believed x (peers with the same x in fleet order)
RECURSIVE vehicle_map_sorted(_, _)
vehicle_map_sorted(map, ids) ==
    IF ids = {} THEN <<>>
    ELSE LET least == CHOOSE id \in ids :
                 \A other \in ids \ {id} :
                    \/ map[id].position_x < map[other].position_x
                    \/ /\ map[id].position_x = map[other].position_x
                       /\ \E i, j \in DOMAIN Fleet : Fleet[i] = id /\ Fleet[j] = other /\ i < j
         IN <<least>> \o vehicle_map_sorted(map, ids \ {least})

other_lane_never(vehicle, vehicle_state) == FALSE

\* lines 234-239: the lateral extents of the two vehicles do not overlap
other_lane(vehicle, vehicle_state) ==
    LET rear_right == 2 * position_y[vehicle] - CONFIG.VEHICLE_WIDTH
        rear_left == 2 * position_y[vehicle] + CONFIG.VEHICLE_WIDTH
        front_right == 2 * vehicle_state.position_y - CONFIG.VEHICLE_WIDTH
        front_left == 2 * vehicle_state.position_y + CONFIG.VEHICLE_WIDTH
    IN (rear_right > front_left) \/ (rear_left < front_right)

\* the loop over the sorted peers: <<>> stands for None, <<[target, ttc]>> for
\* the CWM returned (its target and its time_to_collision)
RECURSIVE scan(_, _)
scan(vehicle, peers) ==
    IF peers = <<>> THEN <<>>
    ELSE LET vehicle_id == Head(peers)
             vehicle_state == vehicle_map[vehicle][vehicle_id]
             ttc == compute_ttc(vehicle, vehicle_state)
         IN IF vehicle_state.position_x <= position[vehicle]
            THEN scan(vehicle, Tail(peers))
            ELSE IF other_lane(vehicle, vehicle_state)
                 THEN scan(vehicle, Tail(peers))
                 ELSE IF ttc = <<>>
                      THEN scan(vehicle, Tail(peers))
                      ELSE IF Below(ttc[1], CONFIG.COLLISION_TIME_THRESHOLD)
                           THEN <<[target |-> vehicle_id, ttc |-> ttc[1]]>>
                           ELSE scan(vehicle, Tail(peers))

detect_potential_collisions(vehicle) ==
    scan(vehicle, vehicle_map_sorted(vehicle_map[vehicle], DOMAIN vehicle_map[vehicle]))

-----------------------------------------------------------------------------
(* network_simulator.py: deliver_messages *)

\* vehicle.receive_message(message, message_hash) called on the world w: the
\* call is logged (history) and Protocol.receive acts on the vehicle's queue
receive_message(w, vehicle, entry) ==
    [heaps |-> [w.heaps EXCEPT ![vehicle] =
                   receive(@, vehicle, entry.message, entry.message_hash)],
     calls |-> Append(w.calls, [vehicle |-> vehicle, message |-> entry.message,
                                message_hash |-> entry.message_hash,
                                reach |-> entry.reach])]

is_sender_never(vehicle, entry) == FALSE

\* line 49: vehicle is send_vehicle
is_sender(vehicle, entry) == vehicle = entry.send_vehicle

RECURSIVE deliver_entry_at_enqueue(_, _, _)
deliver_entry_at_enqueue(w, entry, all_vehicles) ==
    IF all_vehicles = <<>>
    THEN w
    ELSE LET vehicle == Head(all_vehicles)
         IN IF vehicle \notin entry.reach
            THEN deliver_entry_at_enqueue(w, entry, Tail(all_vehicles))
            ELSE deliver_entry_at_enqueue(receive_message(w, vehicle, entry),
                                          entry, Tail(all_vehicles))

RECURSIVE deliver_entry_to_all(_, _, _)
deliver_entry_to_all(w, entry, all_vehicles) ==
    IF all_vehicles = <<>>
    THEN w
    ELSE LET vehicle == Head(all_vehicles)
         IN IF is_sender(vehicle, entry)
            THEN deliver_entry_to_all(w, entry, Tail(all_vehicles))
            ELSE deliver_entry_to_all(receive_message(w, vehicle, entry),
                                      entry, Tail(all_vehicles))

RECURSIVE deliver_entry(_, _, _)
\* the inner loop "for vehicle in all_vehicles" for one entry of all_messages,
\* all_vehicles being the vehicles not yet visited
deliver_entry(w, entry, all_vehicles) ==
    IF all_vehicles = <<>>
    THEN w
    ELSE LET vehicle == Head(all_vehicles)
         IN IF is_sender(vehicle, entry)
            THEN deliver_entry(w, entry, Tail(all_vehicles))
            ELSE IF ~in_range(vehicle, entry.send_vehicle)
                 THEN deliver_entry(w, entry, Tail(all_vehicles))
                 ELSE deliver_entry(receive_message(w, vehicle, entry),
                                    entry, Tail(all_vehicles))

RECURSIVE deliver_messages(_, _, _)
\* the outer loop over list(self.all_messages.items()): the inbound queues of
\* all vehicles after it and the calls of receive_message it made (every
\* visited entry is deleted)
deliver_messages(w, entries, all_vehicles) ==
    IF entries = <<>>
    THEN w
    ELSE deliver_messages(deliver_entry(w, Head(entries), all_vehicles),
                          Tail(entries), all_vehicles)

-----------------------------------------------------------------------------
(* simulation_engine.py: SimulationEngine.simulation_loop, one action per step *)

\* the vehicle the per-vehicle part of the loop is at
Current == Fleet[pc.idx]

At(step) == pc.step = step

Goto(step, idx) == pc' = [step |-> step, idx |-> idx]

Step(op, vehicle, branch, message) ==
    [op |-> op, vehicle |-> vehicle, branch |-> branch, message |-> message]

\* the steps of the loop before which the wall clock is let advance
ClockSteps == {"physics", "manage"}

\* what a later time.time() of the same step may return
ClockReads == {t \in {now, now + 1} : t <= MaxClock}

\* what the history holds when a run starts
Log == [met |-> {}, bsm_count |-> [v \in Vehicles |-> 0],
        warned |-> [v \in Vehicles |-> {}],
        message_calls |-> 0, update_calls |-> 0, raised |-> {}]

\* no observer registered: __init__ leaves both lists empty
NoCallbacks == [message_callbacks |-> <<>>, update_callbacks |-> <<>>]

notify_until_raise(lg, kind, observers, raising) ==
    LET called == IF raising = {} THEN Len(observers)
                  ELSE CHOOSE i \in raising : \A j \in raising : i <= j
    IN [lg EXCEPT ![kind] = @ + called, !.raised = raising]

\* for callback in observers: try: callback(...) except Exception: print(...)
\* with raising the observers whose call raises: every observer is called
\* (history: the calls are counted under kind, the raising ones remembered)
notify(lg, kind, observers, raising) ==
    [lg EXCEPT ![kind] = @ + Len(observers), !.raised = raising]

\* the engine after initialize(), spawn_vehicle() for the fleet and run(duration)
\* up to the first tick, for a configuration of configs and a run of runs
Start(configs, runs) ==
    /\ CONFIG \in configs
    /\ now = 0
    /\ env_now = 0
    /\ pc = [step |-> "physics", idx |-> 1]
    /\ \E run \in runs :
         /\ duration = run.duration
         /\ position = run.position
         /\ position_y = run.position_y
         /\ velocity = run.velocity
         /\ target_velocity = run.velocity
         /\ callbacks = IF "callbacks" \in DOMAIN run THEN run.callbacks
                        ELSE NoCallbacks
    /\ acceleration = [v \in Vehicles |-> 0]
    /\ emergency_braking = [v \in Vehicles |-> FALSE]
    /\ last_bsm_time = [v \in Vehicles |-> 0]
    /\ vehicle_map = [v \in Vehicles |-> EmptyDict]
    /\ outgoing_cwms = [v \in Vehicles |-> EmptyDict]
    /\ incoming_messages = [v \in Vehicles |-> <<>>]
    /\ network_sim = NetworkSimulator
    /\ total_bsm_count = 0
    /\ total_cwm_count = 0
    /\ app_cwms = [v \in Vehicles |-> <<>>]
    /\ last_step = Step("init", "", "", <<>>)
    /\ log = Log

Init == Start(Configs, Runs)

\* time passes on the wall clock
AdvanceClock ==
    /\ pc.step \in ClockSteps
    /\ \E t \in (now + 1) .. MaxClock : now' = t
    /\ UNCHANGED <<CONFIG, callbacks, position_y, log, env_now, pc, position, emergency_braking, last_bsm_time,
                   vehicle_map, outgoing_cwms, incoming_messages, network_sim,
                   total_bsm_count, total_cwm_count, app_cwms, last_step, duration,
                   target_velocity, velocity, acceleration>>

\* 1) update_all_vehicles: Vehicle.update_physics(SIMULATION_TIMESTEP) of every
\* vehicle
Physics ==
    /\ At("physics")
    /\ acceleration' =
          [v \in Vehicles |->
              update_acceleration(emergency_braking[v], target_velocity[v], velocity[v])]
    /\ velocity' =
          [v \in Vehicles |->
              update_velocity(velocity[v], acceleration'[v], CONFIG.SIMULATION_TIMESTEP)]
    /\ position' =
          [v \in Vehicles |->
              update_position(position[v], velocity'[v], CONFIG.SIMULATION_TIMESTEP)]
    /\ Goto("deliver", 1)
    /\ last_step' = Step("physics", "", "", <<>>)
    /\ UNCHANGED <<CONFIG, callbacks, position_y, log, now, env_now, emergency_braking, last_bsm_time,
                   vehicle_map, outgoing_cwms, incoming_messages, network_sim,
                   total_bsm_count, total_cwm_count, app_cwms, duration,
                   target_velocity>>

\* the pairs of distinct vehicles that in_range holds for (history: log.met
\* collects them at every delivery phase)
InRangePairs ==
    {{q[1], q[2]} : q \in {p \in Vehicles \X Vehicles : p[1] # p[2] /\ in_range(p[1], p[2])}}

\* 2) network_sim.deliver_messages(all vehicles)
Deliver ==
    /\ At("deliver")
    /\ LET delivered == deliver_messages([heaps |-> incoming_messages, calls |-> <<>>],
                                         network_sim.all_messages, Fleet)
       IN /\ incoming_messages' = delivered.heaps
          /\ last_step' = Step("deliver", "", "", delivered.calls)
    /\ log' = [log EXCEPT !.met = @ \cup InRangePairs]
    /\ network_sim' = [network_sim EXCEPT !.all_messages = <<>>]
    /\ Goto("process", 1)
    /\ UNCHANGED <<CONFIG, callbacks, position_y, now, env_now, position, emergency_braking, last_bsm_time,
                   vehicle_map, outgoing_cwms, total_bsm_count, total_cwm_count,
                   app_cwms, duration, target_velocity, velocity, acceleration>>

\* 3) vehicle.process_messages: one message taken from the queue by
\* Protocol.process and what process_messages does with what is returned
ProcessMessage ==
    /\ At("process")
    /\ incoming_messages[Current] # <<>>
    /\ \E t \in ClockReads, r \in Draws :
         LET message == HeapTop(incoming_messages[Current])
             out == process(outgoing_cwms[Current], network_sim, Current,
                            message, now, t, r)
             bsms == SelectSeq(out.returned, LAMBDA m : m.message_type = "BSM")
             cwms == SelectSeq(out.returned, LAMBDA m : m.message_type = "CWM")
         IN /\ incoming_messages' =
                  [incoming_messages EXCEPT ![Current] = HeapPop(@)]
            /\ outgoing_cwms' = [outgoing_cwms EXCEPT ![Current] = out.conns]
            /\ network_sim' = out.net
            /\ now' = out.now
            /\ vehicle_map' =
                  IF bsms = <<>> THEN vehicle_map
                  ELSE [vehicle_map EXCEPT ![Current] =
                          DictSet(@, message.vehicle_id,
                                  VehicleState(message.position_x, message.position_y,
                                               message.velocity,
                                               message.acceleration, now))]
            /\ app_cwms' =
                  IF cwms = <<>> THEN app_cwms
                  ELSE [app_cwms EXCEPT ![Current] = Append(@, message)]
            /\ IF out.raised THEN Goto("raised", pc.idx) ELSE UNCHANGED pc
            /\ last_step' = Step("process", Current, out.branch, <<message>>)
    /\ UNCHANGED <<CONFIG, callbacks, position_y, log, env_now, position, emergency_braking, last_bsm_time,
                   total_bsm_count, total_cwm_count, duration, target_velocity,
                   velocity, acceleration>>

returned_none_or_once(heap, step) ==
    heap = <<>> \/ (step.op = "process" /\ step.vehicle = Current)

\* the condition of `while message != None` fails: Protocol.process returns
\* None only from `except Empty`, whatever it returned before (step is the
\* last step of the loop)
returned_none(heap, step) == heap = <<>>

\* Protocol.process found the queue empty (Empty): process_messages returns
ProcessDone ==
    /\ At("process")
    /\ returned_none(incoming_messages[Current], last_step)
    /\ Goto("manage", pc.idx)
    /\ last_step' = Step("process_done", Current, "", <<>>)
    /\ UNCHANGED <<CONFIG, callbacks, position_y, log, now, env_now, position, emergency_braking, last_bsm_time,
                   vehicle_map, outgoing_cwms, incoming_messages, network_sim,
                   total_bsm_count, total_cwm_count, app_cwms, duration,
                   target_velocity, velocity, acceleration>>

\* vehicle.manage: Protocol.manage, then the prune of the belief-map
Manage ==
    /\ At("manage")
    /\ \E draws \in [DOMAIN outgoing_cwms[Current] -> Draws] :
         LET out == manage(outgoing_cwms[Current], network_sim, incoming_messages,
                           Current, Keys(outgoing_cwms[Current]), now, draws)
         IN /\ outgoing_cwms' = [outgoing_cwms EXCEPT ![Current] = out.conns]
            /\ network_sim' = out.net
            /\ incoming_messages' = out.heaps
    /\ vehicle_map' =
          [vehicle_map EXCEPT ![Current] = prune_vehicle_map(@, now)]
    /\ Goto("detect", pc.idx)
    /\ last_step' = Step("manage", Current, "",
                         SelectSeq(Fleet, LAMBDA id :
                             /\ id \in DOMAIN vehicle_map[Current]
                             /\ id \notin DOMAIN vehicle_map'[Current]))
    /\ UNCHANGED <<CONFIG, callbacks, position_y, log, now, env_now, position, emergency_braking, last_bsm_time,
                   total_bsm_count, total_cwm_count, app_cwms,
                   duration, target_velocity, velocity, acceleration>>

\* detect_potential_collisions(vehicle) returned None
DetectNone ==
    /\ At("detect")
    /\ Goto("bsm", pc.idx)
    /\ last_step' = Step("detect", Current, "none", <<>>)
    /\ UNCHANGED <<CONFIG, callbacks, position_y, log, now, env_now, position, emergency_braking, last_bsm_time,
                   vehicle_map, outgoing_cwms, incoming_messages, network_sim,
                   total_bsm_count, total_cwm_count, app_cwms, duration,
                   target_velocity, velocity, acceleration>>

\* detect_potential_collisions(vehicle) returned a CWM for target: the vehicle
\* brakes, the CWM is counted and sent
Warn(target) ==
    /\ \E t \in ClockReads, r \in Draws :
         LET cwm == create_cwm(Current, get_seq_num(outgoing_cwms[Current], target),
                               target, now, total_cwm_count + 1)
             sent == send(outgoing_cwms[Current], network_sim, Current, cwm, t, r)
         IN /\ emergency_braking' = [emergency_braking EXCEPT ![Current] = TRUE]
            /\ target_velocity' = [target_velocity EXCEPT ![Current] = 0]
            /\ total_cwm_count' = total_cwm_count + 1
            /\ outgoing_cwms' = [outgoing_cwms EXCEPT ![Current] = sent.conns]
            /\ network_sim' = sent.net
            /\ now' = t
            /\ last_step' = Step("detect", Current, "cwm", <<cwm>>)
    /\ \E raising \in SUBSET DOMAIN callbacks.message_callbacks :
         log' = notify([log EXCEPT !.warned[Current] = @ \cup {target}],
                       "message_calls", callbacks.message_callbacks, raising)
    /\ Goto("bsm", pc.idx)
    /\ UNCHANGED <<CONFIG, callbacks, position_y, env_now, position, last_bsm_time, vehicle_map,
                   incoming_messages, total_bsm_count, app_cwms, duration,
                   velocity, acceleration>>

\* the detector found a front peer dangerous (which one, and whether any, is
\* left open here: see FrontPeers)
DetectCollision ==
    /\ At("detect")
    /\ \E target \in FrontPeers(Current) : Warn(target)

\* where the loop goes after the last step of a vehicle
NextVehicle ==
    IF pc.idx < Len(Fleet) THEN Goto("process", pc.idx + 1) ELSE Goto("yield", 1)

\* should_send_bsm(current_time) holds: generate_bsm, count, send
BsmSend ==
    /\ At("bsm")
    /\ should_send_bsm(Current, env_now)
    /\ \E t \in ClockReads, r \in Draws :
         LET bsm == create_bsm(Current, position[Current], now)
             sent == send(outgoing_cwms[Current], network_sim, Current, bsm, t, r)
         IN /\ last_bsm_time' = [last_bsm_time EXCEPT ![Current] = env_now]
            /\ \E raising \in SUBSET DOMAIN callbacks.message_callbacks :
                 log' = notify([log EXCEPT !.bsm_count[Current] = @ + 1],
                               "message_calls", callbacks.message_callbacks, raising)
            /\ total_bsm_count' = total_bsm_count + 1
            /\ outgoing_cwms' = [outgoing_cwms EXCEPT ![Current] = sent.conns]
            /\ network_sim' = sent.net
            /\ now' = t
            /\ last_step' = Step("bsm", Current, "sent", <<bsm>>)
    /\ NextVehicle
    /\ UNCHANGED <<CONFIG, callbacks, position_y, env_now, position, emergency_braking, vehicle_map,
                   incoming_messages, total_cwm_count, app_cwms, duration,
                   target_velocity, velocity, acceleration>>

\* no BSM for this vehicle in this tick: the loop goes on
NoBsm ==
    /\ NextVehicle
    /\ last_step' = Step("bsm", Current, "none", <<>>)
    /\ UNCHANGED <<CONFIG, callbacks, position_y, log, now, env_now, position, emergency_braking, last_bsm_time,
                   vehicle_map, outgoing_cwms, incoming_messages, network_sim,
                   total_bsm_count, total_cwm_count, app_cwms, duration,
                   target_velocity, velocity, acceleration>>

\* should_send_bsm(current_time) does not hold
BsmSkip ==
    /\ At("bsm")
    /\ ~should_send_bsm(Current, env_now)
    /\ NoBsm

\* 4) the update callbacks are called; 5) yield
\* self.env.timeout(SIMULATION_TIMESTEP); env.run(until=duration) resumes the
\* loop while the clock is below the duration
Yield ==
    /\ At("yield")
    /\ \E raising \in SUBSET DOMAIN callbacks.update_callbacks :
         log' = notify(log, "update_calls", callbacks.update_callbacks, raising)
    /\ env_now' = env_now + CONFIG.SIMULATION_TIMESTEP
    /\ IF env_now' < duration THEN Goto("physics", 1) ELSE Goto("stopped", 1)
    /\ last_step' = Step("yield", "", "", <<>>)
    /\ UNCHANGED <<CONFIG, callbacks, position_y, now, position, emergency_braking, last_bsm_time,
                   vehicle_map, outgoing_cwms, incoming_messages, network_sim,
                   total_bsm_count, total_cwm_count, app_cwms, duration,
                   target_velocity, velocity, acceleration>>

Next ==
    \/ AdvanceClock
    \/ Physics
    \/ Deliver
    \/ ProcessMessage
    \/ ProcessDone
    \/ Manage
    \/ DetectNone
    \/ DetectCollision
    \/ BsmSend
    \/ BsmSkip
    \/ Yield

Spec == Init /\ [][Next]_vars

-----------------------------------------------------------------------------
(* The same loop with the detector computed from the belief-map *)

\* detect_potential_collisions(vehicle) returned None
DetectNotFound ==
    /\ detect_potential_collisions(Current) = <<>>
    /\ DetectNone

\* detect_potential_collisions(vehicle) returned a CWM
DetectFound ==
    /\ At("detect")
    /\ detect_potential_collisions(Current) # <<>>
    /\ Warn(detect_potential_collisions(Current)[1].target)

Tick ==
    \/ AdvanceClock
    \/ Physics
    \/ Deliver
    \/ ProcessMessage
    \/ ProcessDone
    \/ Manage
    \/ DetectNotFound
    \/ DetectFound
    \/ BsmSend
    \/ BsmSkip
    \/ Yield

\* the configurations with a medium that loses nothing
LosslessConfigs == {[c EXCEPT !.PACKET_LOSS = 0] : c \in Configs}

\* the two-car rear-end scenario (test_phase1): the rear vehicle, spawned
\* first, catches up with a slower front vehicle in the same lane and would
\* be past it before the run ends
Rear == Fleet[1]

Front == Fleet[2]

RearEndRuns ==
    { [position |-> [v \in Vehicles |-> IF v = Rear THEN 0 ELSE 60],
       position_y |-> [v \in Vehicles |-> 0],
       velocity |-> [v \in Vehicles |-> IF v = Rear THEN 12 ELSE 4],
       duration |-> 8] }

RearEndInit == Start(LosslessConfigs, RearEndRuns)

RearEndSpec == RearEndInit /\ [][Tick]_vars

-----------------------------------------------------------------------------
(* Runs with the two vehicles in different lanes, at and around the edge of  *)
(* the communication range                                                     *)

\* where V002 is spawned, V001 being spawned at (0, 0): on the edge of the
\* range and 1 m beyond it, along the road, across it and obliquely
RangeOffsets == {<<300, 0>>, <<301, 0>>, <<180, 240>>, <<181, 240>>,
                 <<0, 300>>, <<0, 301>>}

\* where V002 is spawned in the runs in which a vehicle driving at 12 m/s
\* crosses the edge of the range between the tick of a BSM (tick 2) and the
\* tick that follows: 260 + 3 * 12 <= 300 < 260 + 4 * 12 (V002 leaves) and
\* 340 - 4 * 12 <= 300 < 340 - 3 * 12 (V001 arrives)
CrossingOffsets == {<<260, 0>>, <<340, 0>>}

RangeRuns ==
    { [position |-> [v \in Vehicles |-> IF v = Fleet[1] THEN 0 ELSE o[1]],
       position_y |-> [v \in Vehicles |-> IF v = Fleet[1] THEN 0 ELSE o[2]],
       velocity |-> w,
       duration |-> 4] :
         o \in RangeOffsets \cup CrossingOffsets, w \in [Vehicles -> {0, 12}] }

RangeInit == Start(Configs, RangeRuns)

RangeSpec == RangeInit /\ [][Next]_vars

-----------------------------------------------------------------------------
(* The same runs over a medium that loses everything or nothing *)

\* the configurations with PACKET_LOSS = 1.0
TotalLossConfigs == {[c EXCEPT !.PACKET_LOSS = 100] : c \in Configs}

LossInit == Start(TotalLossConfigs \cup LosslessConfigs, RangeRuns)

LossSpec == LossInit /\ [][Next]_vars

-----------------------------------------------------------------------------
(* Runs of 100 ticks with a BSM interval of 10 ticks (1.0 s, 0.01 s, 0.1 s).  *)
(* env.now is a sum of floats: after k ticks it is not exactly k times the    *)
(* timestep, so when exactly BSM_INTERVAL has elapsed the difference          *)
(* should_send_bsm computes may fall short of BSM_INTERVAL.                   *)

\* should_send_bsm(current_time) does not hold although BSM_INTERVAL has
\* elapsed (0.01 added ten times is 0.09999999999999999)
BsmRoundedDown ==
    /\ At("bsm")
    /\ env_now - last_bsm_time[Current] = CONFIG.BSM_INTERVAL
    /\ NoBsm

FloatTick ==
    \/ Tick
    \/ BsmRoundedDown

\* the configurations with a BSM every 10 ticks
BsmConfigs == {[c EXCEPT !.BSM_INTERVAL = 10] : c \in LosslessConfigs}

\* a vehicle driving alone for 100 ticks: V002 is parked 2000 m ahead and never
\* comes into range
LoneRuns ==
    { [position |-> [v \in Vehicles |-> IF v = Fleet[1] THEN 0 ELSE 2000],
       position_y |-> [v \in Vehicles |-> 0],
       velocity |-> [v \in Vehicles |-> IF v = Fleet[1] THEN 12 ELSE 0],
       duration |-> 100] }

\* the lone run with a BSM every 10 ticks, or the rear-end scenario
BsmInit == Start(BsmConfigs, LoneRuns) \/ RearEndInit

BsmSpec == BsmInit /\ [][FloatTick]_vars

-----------------------------------------------------------------------------
(* compute_ttc and the detector alone: the first vehicle, at x = 0, holds a    *)
(* belief about the second one, and the detection part of its tick is run     *)

\* the kinematic states drawn: velocities in m/s, accelerations in m/s^2 (0
\* when cruising at the target velocity, -MAX_DECELERATION when braking), and
\* the believed x of the peer in m (4 is bumper to bumper, 0 is level, -12 is
\* behind) and its y (0 is the same lane, 2 has the two widths touching, 3 is a
\* lane apart)
TtcVelocities == {0, 4, 12, 20}

TtcAccelerations == {-8, 0}

TtcPeerPositions == {-12, 0, 4, 12, 20, 36, 60}

TtcLanes == {0, 2, 3}

TtcInit ==
    /\ CONFIG \in LosslessConfigs
    /\ now = 0
    /\ env_now = 0
    /\ duration = 1
    /\ pc = [step |-> "detect", idx |-> 1]
    /\ position = [v \in Vehicles |-> 0]
    /\ \E v \in TtcVelocities, a \in TtcAccelerations :
         /\ velocity = [w \in Vehicles |-> v]
         /\ acceleration = [w \in Vehicles |-> a]
         /\ emergency_braking = [w \in Vehicles |-> a < 0]
         /\ target_velocity = [w \in Vehicles |-> IF a < 0 THEN 0 ELSE v]
    /\ \E x \in TtcPeerPositions, y \in TtcLanes, v \in TtcVelocities,
          a \in TtcAccelerations :
         /\ position_y = [w \in Vehicles |-> IF w = Fleet[1] THEN 0 ELSE y]
         /\ vehicle_map = [w \in Vehicles |->
                              IF w = Fleet[1]
                              THEN DictSet(EmptyDict, Fleet[2], VehicleState(x, y, v, a, 0))
                              ELSE EmptyDict]
    /\ last_bsm_time = [v \in Vehicles |-> 0]
    /\ outgoing_cwms = [v \in Vehicles |-> EmptyDict]
    /\ incoming_messages = [v \in Vehicles |-> <<>>]
    /\ network_sim = NetworkSimulator
    /\ total_bsm_count = 0
    /\ total_cwm_count = 0
    /\ app_cwms = [v \in Vehicles |-> <<>>]
    /\ last_step = Step("init", "", "", <<>>)
    /\ log = Log
    /\ callbacks = NoCallbacks

\* vehicle.compute_ttc(vehicle_state) for a peer of the belief-map, called on
\* its own: what it returns is kept in last_step
ComputeTtc ==
    /\ At("detect")
    /\ last_step.op = "init"
    /\ \E vehicle_id \in DOMAIN vehicle_map[Current] :
         last_step' = Step("compute_ttc", Current, vehicle_id,
                           compute_ttc(Current, vehicle_map[Current][vehicle_id]))
    /\ UNCHANGED <<CONFIG, callbacks, position_y, log, now, env_now, pc, position, emergency_braking,
                   last_bsm_time, vehicle_map, outgoing_cwms, incoming_messages,
                   network_sim, total_bsm_count, total_cwm_count, app_cwms, duration,
                   target_velocity, velocity, acceleration>>

TtcNext ==
    \/ ComputeTtc
    \/ DetectNotFound
    \/ DetectFound

TtcSpec == TtcInit /\ [][TtcNext]_vars

-----------------------------------------------------------------------------
(* The rear-end scenario with observers registered: two message observers    *)
(* (add_message_callback) and two tick observers (add_update_callback), any   *)
(* of which may raise at any call                                             *)

ObservedRuns ==
    { [position |-> run.position, position_y |-> run.position_y,
       velocity |-> run.velocity, duration |-> 4,
       callbacks |-> [message_callbacks |-> <<"on_message_1", "on_message_2">>,
                      update_callbacks |-> <<"on_update_1", "on_update_2">>]] :
         run \in RearEndRuns }

ObservedInit == Start(LosslessConfigs, ObservedRuns)

ObservedSpec == ObservedInit /\ [][Tick]_vars

-----------------------------------------------------------------------------
(* The inbound queue of the second vehicle of a fleet of three, from the      *)
(* delivery phase of a tick to the end of its process_messages.  What was     *)
(* delivered are the message objects the senders still hold: the first        *)
(* vehicle's manage, which runs before the second vehicle's process_messages, *)
(* may retransmit its unacknowledged CWM and assigns its timestamp then.      *)

\* the vehicles that sent what the queue holds
InboxSenders == {"V001", "V003"}

\* the CWM for the second vehicle that a sender holds unacknowledged
InboxCwm(sender, t) ==
    create_cwm(sender, 0, Fleet[2], t, IF sender = "V001" THEN 1 ELSE 2)

\* what the delivery phase may have handed over: the senders' CWMs and a BSM
\* of the first vehicle, stamped at 0 or 1 on the wall clock
InboxMessages ==
    {InboxCwm(sender, t) : sender \in InboxSenders, t \in 0 .. 1}
    \cup {create_bsm(Fleet[1], 0, t) : t \in 0 .. 1}

\* the deliveries of one phase, in the order of the pending set: up to three
\* messages, no object twice
InboxDeliveries ==
    {d \in UNION {[1 .. n -> InboxMessages] : n \in 1 .. 3} :
        \A i, j \in DOMAIN d :
           i # j => <<d[i].message_type, d[i].vehicle_id>>
                       # <<d[j].message_type, d[j].vehicle_id>>}

RECURSIVE receive_all(_, _, _)
\* vehicle.receive_message for every delivery, in order
receive_all(heap, vehicle, deliveries) ==
    IF deliveries = <<>> THEN heap
    ELSE receive_all(receive(heap, vehicle, Head(deliveries),
                             get_message_hash(Head(deliveries))),
                     vehicle, Tail(deliveries))

InboxInit ==
    /\ CONFIG \in LosslessConfigs
    /\ now = 1
    /\ env_now = 1
    /\ duration = 2
    /\ pc = [step |-> "process", idx |-> 2]
    /\ position = [v \in Vehicles |-> 0]
    /\ position_y = [v \in Vehicles |-> 0]
    /\ velocity = [v \in Vehicles |-> 0]
    /\ acceleration = [v \in Vehicles |-> 0]
    /\ emergency_braking = [v \in Vehicles |-> FALSE]
    /\ target_velocity = [v \in Vehicles |-> 0]
    /\ vehicle_map = [v \in Vehicles |-> EmptyDict]
    /\ last_bsm_time = [v \in Vehicles |-> 0]
    /\ outgoing_cwms = [v \in Vehicles |-> EmptyDict]
    /\ \E deliveries \in InboxDeliveries :
         incoming_messages =
            [v \in Vehicles |->
                IF v = Fleet[2] THEN receive_all(<<>>, v, deliveries) ELSE <<>>]
    /\ network_sim = NetworkSimulator
    /\ total_bsm_count = 0
    /\ total_cwm_count = 2
    /\ app_cwms = [v \in Vehicles |-> <<>>]
    /\ last_step = Step("deliver", "", "", <<>>)
    /\ log = Log
    /\ callbacks = NoCallbacks

\* Protocol.manage of the first vehicle finds its CWM due for retransmission:
\* cwm.timestamp = time.time() (protocol.py 177) on the object the second
\* vehicle's queue holds
InboxRetransmit ==
    /\ last_step.op = "deliver"
    /\ \E t \in (now + 1) .. MaxClock :
         /\ now' = t
         /\ incoming_messages' =
               [v \in Vehicles |-> Restamp(incoming_messages[v], 1, t)]
    /\ last_step' = Step("manage", Fleet[1], "", <<>>)
    /\ UNCHANGED <<CONFIG, callbacks, position_y, log, env_now, pc, position,
                   emergency_braking, last_bsm_time, vehicle_map, outgoing_cwms,
                   network_sim, total_bsm_count, total_cwm_count, app_cwms, duration,
                   target_velocity, velocity, acceleration>>

InboxNext ==
    \/ InboxRetransmit
    \/ ProcessMessage
    \/ ProcessDone

InboxSpec == InboxInit /\ [][InboxNext]_vars

-----------------------------------------------------------------------------
(* vehicle.py alone: the calls that change a vehicle's kinematic state, in any *)
(* order and from any spawn velocity and target                               *)

\* the vehicle driven here, and the x coordinate beyond which it is not
\* driven further
Driven == Fleet[1]

MaxX == 40

\* velocities the vehicle is created with
SpawnVelocities == {0, 3, 12}

\* arguments of set_target_velocity
TargetVelocities == {-5, 0, 3, 12}

PhysInit ==
    /\ CONFIG \in Configs
    /\ now = 0
    /\ env_now = 0
    /\ pc = [step |-> "physics", idx |-> 1]
    /\ duration = 0
    /\ position = [v \in Vehicles |-> 0]
    /\ \E w \in SpawnVelocities :
         /\ velocity = [v \in Vehicles |-> IF v = Driven THEN w ELSE 0]
         /\ target_velocity = velocity
    /\ acceleration = [v \in Vehicles |-> 0]
    /\ emergency_braking = [v \in Vehicles |-> FALSE]
    /\ last_bsm_time = [v \in Vehicles |-> 0]
    /\ vehicle_map = [v \in Vehicles |-> EmptyDict]
    /\ outgoing_cwms = [v \in Vehicles |-> EmptyDict]
    /\ incoming_messages = [v \in Vehicles |-> <<>>]
    /\ network_sim = NetworkSimulator
    /\ total_bsm_count = 0
    /\ total_cwm_count = 0
    /\ app_cwms = [v \in Vehicles |-> <<>>]
    /\ last_step = Step("init", "", "", <<>>)
    /\ position_y = [v \in Vehicles |-> 0]
    /\ log = Log
    /\ callbacks = NoCallbacks

\* Vehicle.update_physics(dt) of one vehicle; the step remembers the velocity
\* before it (history)
UpdatePhysics ==
    \E v \in {Driven} :
        /\ position[v] <= MaxX
        /\ acceleration' =
              [acceleration EXCEPT ![v] =
                  update_acceleration(emergency_braking[v], target_velocity[v],
                                      velocity[v])]
        /\ velocity' =
              [velocity EXCEPT ![v] =
                  update_velocity(@, acceleration'[v], CONFIG.SIMULATION_TIMESTEP)]
        /\ position' =
              [position EXCEPT ![v] =
                  update_position(@, velocity'[v], CONFIG.SIMULATION_TIMESTEP)]
        /\ last_step' = Step("update_physics", v, "", <<velocity[v]>>)
        /\ UNCHANGED <<CONFIG, callbacks, position_y, log, now, env_now, pc, duration, target_velocity,
                       emergency_braking, last_bsm_time, vehicle_map, outgoing_cwms,
                       incoming_messages, network_sim, total_bsm_count,
                       total_cwm_count, app_cwms>>

\* Vehicle.set_target_velocity(velocity)
SetTargetVelocity ==
    \E v \in {Driven}, tv \in TargetVelocities :
        /\ target_velocity' = [target_velocity EXCEPT ![v] = Max(0, tv)]
        /\ last_step' = Step("set_target_velocity", v, "", <<tv>>)
        /\ UNCHANGED <<CONFIG, callbacks, position_y, log, now, env_now, pc, duration, position, velocity,
                       acceleration, emergency_braking, last_bsm_time, vehicle_map,
                       outgoing_cwms, incoming_messages, network_sim, total_bsm_count,
                       total_cwm_count, app_cwms>>

\* Vehicle.activate_emergency_braking()
ActivateEmergencyBraking ==
    \E v \in {Driven} :
        /\ emergency_braking' = [emergency_braking EXCEPT ![v] = TRUE]
        /\ target_velocity' = [target_velocity EXCEPT ![v] = 0]
        /\ last_step' = Step("activate_emergency_braking", v, "", <<>>)
        /\ UNCHANGED <<CONFIG, callbacks, position_y, log, now, env_now, pc, duration, position, velocity,
                       acceleration, last_bsm_time, vehicle_map, outgoing_cwms,
                       incoming_messages, network_sim, total_bsm_count,
                       total_cwm_count, app_cwms>>

PhysNext ==
    \/ UpdatePhysics
    \/ SetTargetVelocity
    \/ ActivateEmergencyBraking

PhysSpec == PhysInit /\ [][PhysNext]_vars

-----------------------------------------------------------------------------
(* Properties of Spec.  A step of the loop is read off last_step (after the   *)
(* step) together with the state before it.                                   *)

\* the CWMs of sender s among those Protocol.process returned to vehicle p
ReturnedFrom(p, s) == SelectSeq(app_cwms[p], LAMBDA m : m.vehicle_id = s)

\* C1: for every sender S and peer P, the CWMs from S that Protocol.process
\* returned to P's application layer carry the sequence numbers 0, 1, 2, ...
\* in that order (the i-th returned CWM carries i - 1)
C1_ReturnedInSequence ==
    \A p \in Vehicles, s \in Vehicles :
        \A i \in DOMAIN ReturnedFrom(p, s) :
            ReturnedFrom(p, s)[i].sequence_number = i - 1

\* C6: a connection that saw no activity for longer than CONNECTION_TIME does
\* not survive the vehicle's manage step, whether or not CWMs are still queued
\* on it (retransmission alone does not keep it)
C6_IdleConnectionDeleted ==
    At("detect") =>
        \A p \in DOMAIN outgoing_cwms[Current] :
            ~((now - outgoing_cwms[Current][p].last_use) > CONFIG.CONNECTION_TIME)

\* C7: when the medium delivers, the digest stored with every pending message
\* is the digest receive() recomputes from the message's fields, so that no
\* message the sender handed over unmodified is discarded by the digest check
C7_DigestMatchesAtDelivery ==
    At("deliver") =>
        \A i \in DOMAIN network_sim.all_messages :
            network_sim.all_messages[i].message_hash
                = get_message_hash(network_sim.all_messages[i].message)

\* Protocol.process of Current is about to take a message from its queue
Processing == At("process") /\ incoming_messages[Current] # <<>>

\* ... which is this one
Dequeued == HeapTop(incoming_messages[Current])

\* ... and it is an ACK of a peer Current holds a connection for
AckOnConnection ==
    /\ Processing
    /\ Dequeued.message_type = "ACK"
    /\ Dequeued.vehicle_id \in DOMAIN outgoing_cwms[Current]

\* ... whose number is the connection's send_seq_num
MatchingAck ==
    /\ AckOnConnection
    /\ Dequeued.sequence_number
          = outgoing_cwms[Current][Dequeued.vehicle_id].send_seq_num

\* ... whose number is below the connection's send_seq_num
StaleAck ==
    /\ AckOnConnection
    /\ Dequeued.sequence_number
          < outgoing_cwms[Current][Dequeued.vehicle_id].send_seq_num

\* ... or it is a CWM of a peer whose number is below the connection's
\* recv_seq_num
DuplicateCwm ==
    /\ Processing
    /\ Dequeued.message_type = "CWM"
    /\ Dequeued.vehicle_id \in DOMAIN outgoing_cwms[Current]
    /\ Dequeued.sequence_number
          < outgoing_cwms[Current][Dequeued.vehicle_id].recv_seq_num

\* the pending entries that hold a CWM of s for p
PendingCwms(s, p) ==
    {i \in DOMAIN network_sim.all_messages :
        /\ network_sim.all_messages[i].send_vehicle = s
        /\ network_sim.all_messages[i].message.message_type = "CWM"
        /\ network_sim.all_messages[i].message.target_vehicle_id = p}

\* the enqueue calls the medium did not drop, so far
Survivors(net) == net.total_packets - net.lost_packets

\* C2, first part: the pending set never holds more than one CWM of S for P
C2_OneCwmPending ==
    \A s \in Vehicles, p \in Vehicles : Cardinality(PendingCwms(s, p)) <= 1

\* C2, second part: a CWM that a step hands to the medium is, after the step,
\* the head of the sender's queue for its target
C2_HandedOverIsHead ==
    \A i \in DOMAIN network_sim'.all_messages :
        LET entry == network_sim'.all_messages[i]
            s == entry.send_vehicle
            p == entry.message.target_vehicle_id
        IN (/\ entry.message.message_type = "CWM"
            /\ entry.tick = env_now
            /\ \A j \in DOMAIN network_sim.all_messages :
                  network_sim.all_messages[j].message_hash # entry.message_hash)
           => /\ p \in DOMAIN outgoing_cwms'[s]
              /\ outgoing_cwms'[s][p].cwms # <<>>
              /\ Head(outgoing_cwms'[s][p].cwms) = entry.message

\* C2, third part: Protocol.send of a CWM for a peer whose queue holds a CWM
\* already hands nothing to the medium
C2_QueuedBehindHeadIsNotSent ==
    (/\ At("detect")
     /\ last_step'.branch = "cwm"
     /\ last_step'.message[1].target_vehicle_id \in DOMAIN outgoing_cwms[Current]
     /\ outgoing_cwms[Current][last_step'.message[1].target_vehicle_id].cwms # <<>>)
    => network_sim' = network_sim

\* C2: at most one CWM of S for P is pending, every CWM handed to the medium
\* is the head of the queue, and a CWM queued behind the head is not sent
\* (total_packets unchanged)
C2_HeadOfLine ==
    /\ []C2_OneCwmPending
    /\ [][C2_HandedOverIsHead /\ C2_QueuedBehindHeadIsNotSent]_vars

\* C3: processing an ACK whose number N is the connection's send_seq_num
\* removes exactly one CWM, the head, which carries N, and makes send_seq_num
\* N + 1; no other step changes the send_seq_num of a connection; an ACK whose
\* number was acknowledged before (N < send_seq_num) removes nothing
C3_MatchingAckDequeuesHead ==
    [][/\ MatchingAck =>
            LET p == Dequeued.vehicle_id
                before == outgoing_cwms[Current][p]
            IN /\ p \in DOMAIN outgoing_cwms'[Current]
               /\ before.cwms # <<>>
               /\ Head(before.cwms).sequence_number = Dequeued.sequence_number
               /\ Len(outgoing_cwms'[Current][p].cwms) = Len(before.cwms) - 1
               /\ outgoing_cwms'[Current][p].send_seq_num
                     = Dequeued.sequence_number + 1
       /\ \A s \in Vehicles :
             \A p \in DOMAIN outgoing_cwms[s] \cap DOMAIN outgoing_cwms'[s] :
                outgoing_cwms'[s][p].send_seq_num # outgoing_cwms[s][p].send_seq_num
                => MatchingAck /\ s = Current /\ p = Dequeued.vehicle_id
       /\ StaleAck =>
            /\ Dequeued.vehicle_id \in DOMAIN outgoing_cwms'[Current]
            /\ outgoing_cwms'[Current][Dequeued.vehicle_id].cwms
                  = outgoing_cwms[Current][Dequeued.vehicle_id].cwms
      ]_vars

\* the calls of receive_message a delivery made for vehicle v with this entry
CallsFor(calls, v, entry) ==
    {k \in DOMAIN calls :
        /\ calls[k].vehicle = v
        /\ calls[k].message = entry.message
        /\ calls[k].message_hash = entry.message_hash}

\* the delivery phase: every pending entry was enqueued in the tick before,
\* it is passed to receive_message once for every vehicle other than the
\* sender that is in range of the sender now and for no other vehicle, no
\* other call is made, and the pending set is empty afterwards
C4_DeliveryStep ==
    (At("deliver") /\ last_step'.op = "deliver") =>
        LET entries == network_sim.all_messages
            calls == last_step'.message
        IN /\ \A i \in DOMAIN entries :
                 /\ entries[i].tick = env_now - CONFIG.SIMULATION_TIMESTEP
                 /\ \A v \in Vehicles :
                       Cardinality(CallsFor(calls, v, entries[i]))
                         = IF v # entries[i].send_vehicle
                              /\ in_range(v, entries[i].send_vehicle)
                           THEN 1 ELSE 0
           /\ \A k \in DOMAIN calls :
                 \E i \in DOMAIN entries : k \in CallsFor(calls, calls[k].vehicle, entries[i])
           /\ network_sim'.all_messages = <<>>

\* between deliveries: every enqueue the medium did not drop adds an entry to
\* the pending set, and no entry leaves it
C4_EnqueueStep ==
    ~At("deliver") =>
        Len(network_sim'.all_messages) - Len(network_sim.all_messages)
          = Survivors(network_sim') - Survivors(network_sim)

\* C4: every message handed to the medium in a tick and not dropped is pending
\* until the delivery phase of the next tick and is then passed to receive()
\* exactly once for every vehicle other than the sender in range of it, never
\* for the sender, never in the tick it was enqueued in; the pending set is
\* empty when the delivery returns
C4_DeliveredOnceNextTick == [][C4_DeliveryStep /\ C4_EnqueueStep]_vars

\* a delivery passed two messages on and left a vehicle out of one of them
C4_Delivered ==
    /\ last_step.op = "deliver"
    /\ Len(last_step.message) >= 2
    /\ \E k \in DOMAIN last_step.message :
          last_step.message[k].message.message_type = "CWM"

\* the queue of vehicle v holds message m
Queued(heaps, v, m) == \E k \in DOMAIN heaps[v] : heaps[v][k] = m

\* link 1: manage retransmits the head CWM of Current's connection when more
\* than RETRANSMIT has passed since transmit_time
C5_Retransmits ==
    (At("manage") /\ last_step'.op = "manage") =>
        \A p \in DOMAIN outgoing_cwms[Current] :
            LET conn == outgoing_cwms[Current][p]
            IN (conn.cwms # <<>> /\ (now - conn.transmit_time) > CONFIG.RETRANSMIT)
               => /\ p \in DOMAIN outgoing_cwms'[Current]
                  /\ outgoing_cwms'[Current][p].transmit_time = now
                  /\ Head(outgoing_cwms'[Current][p].cwms).oid = Head(conn.cwms).oid
                  /\ network_sim'.total_packets > network_sim.total_packets

\* link 2: a CWM or ACK frame the sampler did not drop reaches the inbound
\* queue of its target at the next delivery if the target is in range
C5_FrameArrives ==
    (At("deliver") /\ last_step'.op = "deliver") =>
        \A i \in DOMAIN network_sim.all_messages :
            LET entry == network_sim.all_messages[i]
                target == entry.message.target_vehicle_id
            IN (/\ HasTarget(entry.message)
                /\ target \in Vehicles \ {entry.send_vehicle}
                /\ in_range(target, entry.send_vehicle))
               => Queued(incoming_messages', target, entry.message)

\* link 3: the peer acknowledges a CWM it has seen before, or expects
C5_Acknowledges ==
    (/\ Processing
     /\ Dequeued.message_type = "CWM"
     /\ Dequeued.vehicle_id \in DOMAIN outgoing_cwms[Current]
     /\ Dequeued.sequence_number
           <= outgoing_cwms[Current][Dequeued.vehicle_id].recv_seq_num)
    => network_sim'.total_packets = network_sim.total_packets + 1

\* link 4: the ACK for the head advances send_seq_num by one and takes the
\* head off the queue
C5_Advances ==
    (MatchingAck /\ outgoing_cwms[Current][Dequeued.vehicle_id].cwms # <<>>)
    => LET p == Dequeued.vehicle_id
           before == outgoing_cwms[Current][p]
       IN /\ outgoing_cwms'[Current][p].send_seq_num = before.send_seq_num + 1
          /\ Len(outgoing_cwms'[Current][p].cwms) = Len(before.cwms) - 1

\* C5: recovery from a lost ACK, link by link: the sender retransmits the
\* head CWM once the retransmit timer has run out, the retransmitted CWM and
\* the ACK answering it reach their in-range targets when the sampler does
\* not drop them, the peer acknowledges the retransmission, and the ACK
\* advances send_seq_num by exactly one and shrinks the queue by that CWM
C5_LostAckRecovery ==
    [][C5_Retransmits /\ C5_FrameArrives /\ C5_Acknowledges /\ C5_Advances]_vars

\* C8: processing an ACK whose number is below the connection's send_seq_num
\* changes nothing of the Protocol: not the connection (queue, sequence
\* numbers, transmit_time, last_use), not the connection table, not the
\* pending set
C8_StaleAckChangesNothing ==
    [][StaleAck => outgoing_cwms' = outgoing_cwms /\ network_sim' = network_sim]_vars

\* C8, amended: processing an ACK whose number is below the connection's
\* send_seq_num sets the connection's last_use to the time of processing and
\* changes nothing else of the Protocol
C8_StaleAckOnlyRefreshesLastUse ==
    [][StaleAck =>
          /\ outgoing_cwms' =
                [outgoing_cwms EXCEPT ![Current][Dequeued.vehicle_id].last_use = now]
          /\ network_sim' = network_sim]_vars

\* an ACK below send_seq_num was processed on a connection with a CWM queued
C8_StaleAckProcessed ==
    /\ last_step.op = "process"
    /\ last_step.branch = "ack_ignored"
    /\ LET ack == last_step.message[1]
           conn == outgoing_cwms[last_step.vehicle][ack.vehicle_id]
       IN /\ ack.sequence_number < conn.send_seq_num
          /\ conn.last_use = now
          /\ conn.transmit_time < now

IsAck(m, from, to, n) ==
    /\ m.message_type = "ACK"
    /\ m.vehicle_id = from
    /\ m.target_vehicle_id = to
    /\ m.sequence_number = n

\* C9: processing a CWM whose number N is below recv_seq_num (a duplicate)
\* hands exactly one message to the medium, an ACK with number N targeted at
\* the CWM's sender, leaves recv_seq_num as it is and returns nothing to the
\* application layer
C9_DuplicateCwmIsAcked ==
    [][DuplicateCwm =>
          LET s == Dequeued.vehicle_id
              old == network_sim.all_messages
              new == network_sim'.all_messages
          IN /\ network_sim'.total_packets = network_sim.total_packets + 1
             /\ \/ /\ network_sim'.lost_packets = network_sim.lost_packets + 1
                   /\ new = old
                \/ /\ network_sim'.lost_packets = network_sim.lost_packets
                   /\ Len(new) = Len(old) + 1
                   /\ SubSeq(new, 1, Len(old)) = old
                   /\ new[Len(new)].send_vehicle = Current
                   /\ IsAck(new[Len(new)].message, Current, s,
                            Dequeued.sequence_number)
             /\ s \in DOMAIN outgoing_cwms'[Current]
             /\ outgoing_cwms'[Current][s].recv_seq_num
                   = outgoing_cwms[Current][s].recv_seq_num
             /\ app_cwms' = app_cwms]_vars

\* a duplicate CWM was processed and its ACK is pending
C9_DuplicateProcessed ==
    /\ last_step.op = "process"
    /\ last_step.branch = "cwm_duplicate"
    /\ \E i \in DOMAIN network_sim.all_messages :
          IsAck(network_sim.all_messages[i].message, last_step.vehicle,
                last_step.message[1].vehicle_id, last_step.message[1].sequence_number)

-----------------------------------------------------------------------------
(* Properties of PhysSpec *)

\* C10: the velocity of every vehicle is never negative
C10_VelocityNonNegative == \A v \in Vehicles : velocity[v] >= 0

\* an update of the physics stopped a vehicle that the deceleration would
\* have taken below 0
C10_StoppedAtZero ==
    /\ last_step.op = "update_physics"
    /\ velocity[last_step.vehicle] = 0
    /\ last_step.message[1]
          + acceleration[last_step.vehicle] * CONFIG.SIMULATION_TIMESTEP < 0

-----------------------------------------------------------------------------
(* The belief-map *)

\* a vehicle's manage step has just run
Managed == last_step.op = "manage" /\ At("detect")

C11_NoStaleBelief ==
    Managed =>
        \A id \in DOMAIN vehicle_map[Current] :
            ~((now - vehicle_map[Current][id].timestamp) > CONFIG.CONNECTION_TIME)

C11_AbsentUntilHeard ==
    \A v \in Vehicles, id \in Vehicles :
        (id \notin DOMAIN vehicle_map[v] /\ id \in DOMAIN vehicle_map'[v])
            => /\ last_step'.op = "process"
               /\ last_step'.vehicle = v
               /\ last_step'.message[1].message_type = "BSM"
               /\ last_step'.message[1].vehicle_id = id

\* C11: immediately after a vehicle's manage step its belief-map holds no entry
\* older than CONNECTION_TIME, and a peer that is absent from a belief-map
\* stays absent until a BSM from it is processed
C11_BeliefMapPruned == []C11_NoStaleBelief /\ [][C11_AbsentUntilHeard]_vars

\* a manage step removed a peer from the belief-map
C11_PeerPruned == Managed /\ last_step.message # <<>>

-----------------------------------------------------------------------------
(* Emergency braking *)

C12_TargetIsZero ==
    \A v \in Vehicles : emergency_braking[v] => target_velocity[v] = 0

C12_StaysEngaged ==
    \A v \in Vehicles : emergency_braking[v] => emergency_braking'[v]

C12_SlowsDown ==
    \A v \in Vehicles :
        emergency_braking[v] =>
            /\ velocity'[v] <= velocity[v]
            /\ (last_step'.op = "physics" /\ velocity[v] > 0) => velocity'[v] < velocity[v]
            /\ velocity[v] = 0 => velocity'[v] = 0

\* C12: once emergency_braking of a vehicle is true it stays true and its
\* target_velocity is 0; from then on no step raises its velocity, every
\* physics update lowers it while it is positive, and at 0 it stays 0
C12_BrakesUntilStopped ==
    []C12_TargetIsZero /\ [][C12_StaysEngaged /\ C12_SlowsDown]_vars

\* a braking vehicle went through a physics update and is still moving
C12_Braking ==
    \E v \in Vehicles :
        /\ emergency_braking[v]
        /\ last_step.op = "physics"
        /\ acceleration[v] = -CONFIG.MAX_DECELERATION
        /\ velocity[v] > 0

-----------------------------------------------------------------------------
(* The rear-end scenario *)

C13_RearWarned == Front \in log.warned[Rear] /\ emergency_braking[Rear]

\* C13: in the rear-end scenario without packet loss the rear vehicle has
\* issued a CWM targeting the front vehicle and brakes by the time the run is
\* over (it would have passed the front vehicle by then), and the front
\* vehicle issues no CWM about the rear one
C13_RearEndWarning ==
    /\ pc.step = "stopped" => C13_RearWarned
    /\ log.warned[Front] = {}

-----------------------------------------------------------------------------
(* C14 *)

\* the square of the Euclidean distance between two vehicles
SquaredDistance(a, b) ==
    (position[a] - position[b]) * (position[a] - position[b])
    + (position_y[a] - position_y[b]) * (position_y[a] - position_y[b])

\* the square of the communication range
SquaredRange == CONFIG.COMMUNICATION_RANGE * CONFIG.COMMUNICATION_RANGE

\* a delivery phase hands a pending message to a vehicle other than its sender
\* exactly when the two are at most communication_range apart
C14_DeliveredWithinRange ==
    last_step'.op = "deliver" =>
       \A i \in DOMAIN network_sim.all_messages : \A v \in Vehicles :
          LET entry == network_sim.all_messages[i]
          IN v # entry.send_vehicle =>
                ((\E k \in DOMAIN last_step'.message :
                     /\ last_step'.message[k].vehicle = v
                     /\ last_step'.message[k].message_hash = entry.message_hash)
                 <=> SquaredDistance(v, entry.send_vehicle) <= SquaredRange)

\* the range test gives the same answer whichever vehicle is taken as source
C14_Symmetric ==
    \A a, b \in Vehicles : in_range(a, b) <=> in_range(b, a)

\* C14: the range test is inclusive, Euclidean and symmetric: at every
\* delivery phase a receiver whose distance to the sender is communication_range
\* or less is handed the message, a receiver farther away is not, and
\* in_range(a, b) = in_range(b, a) in every state.
C14_RangeTestInclusive == []C14_Symmetric /\ [][C14_DeliveredWithinRange]_vars

\* a message has just been delivered across lanes to a receiver that is
\* exactly communication_range away from the sender
C14_DeliveredOnTheEdge ==
    /\ last_step.op = "deliver"
    /\ \E k \in DOMAIN last_step.message :
         LET call == last_step.message[k]
         IN /\ SquaredDistance(call.vehicle, call.message.vehicle_id) = SquaredRange
            /\ position_y[call.vehicle] # position_y[call.message.vehicle_id]
            /\ position[call.vehicle] # position[call.message.vehicle_id]

-----------------------------------------------------------------------------
(* C15 *)

\* the delivery made a call of receive_message on v for this entry
Called(calls, v, entry) ==
    \E k \in DOMAIN calls :
       calls[k].vehicle = v /\ calls[k].message_hash = entry.message_hash

\* a delivery phase: what is pending was enqueued one tick earlier; a vehicle
\* that was in range of the sender then and is not now gets no call, a vehicle
\* that was out of range then and is in range now gets one
C15_DecidedAtDelivery ==
    last_step'.op = "deliver" =>
       \A i \in DOMAIN network_sim.all_messages :
          LET entry == network_sim.all_messages[i]
          IN /\ entry.tick + CONFIG.SIMULATION_TIMESTEP = env_now
             /\ \A v \in Vehicles \ {entry.send_vehicle} :
                   /\ (v \in entry.reach /\ ~in_range(v, entry.send_vehicle))
                         => ~Called(last_step'.message, v, entry)
                   /\ (v \notin entry.reach /\ in_range(v, entry.send_vehicle))
                         => Called(last_step'.message, v, entry)

\* the positions a delivery phase sees are those the physics update of the
\* same tick has just produced
C15_AfterPhysics ==
    last_step'.op = "deliver" => last_step.op = "physics" /\ position' = position

\* C15: the receivers of a message enqueued in tick T are decided from the
\* positions after the physics update of tick T+1: a vehicle in range at enqueue
\* and out of range after that update does not receive the message, a vehicle
\* out of range at enqueue and in range after that update does.
C15_ReceiversDecidedAtDelivery ==
    [][C15_DecidedAtDelivery /\ C15_AfterPhysics]_vars

\* a message has just been delivered to a vehicle that was out of range of the
\* sender when the message was enqueued
C15_DeliveredToNewcomer ==
    /\ last_step.op = "deliver"
    /\ \E k \in DOMAIN last_step.message :
         /\ last_step.message[k].vehicle \notin last_step.message[k].reach
         /\ in_range(last_step.message[k].vehicle, last_step.message[k].message.vehicle_id)

-----------------------------------------------------------------------------
(* C16 *)

\* a and b were out of range of each other at every delivery phase so far
NeverMet(a, b) == {a, b} \notin log.met

\* every BSM a vehicle emitted is counted in total_bsm_count
C16_BsmsCounted ==
    total_bsm_count = log.bsm_count[Fleet[1]] + log.bsm_count[Fleet[2]]

\* a run longer than the BSM interval has ended: every vehicle has emitted
C16_BsmsEmitted ==
    (pc.step = "stopped" /\ duration > CONFIG.BSM_INTERVAL)
       => \A v \in Vehicles : log.bsm_count[v] >= 1

\* C16: two vehicles that were farther apart than communication_range at every
\* delivery phase still emit BSMs that are counted, but neither has the other in
\* its belief-map, neither holds a CWMConnection for the other, and neither
\* has issued a CWM about the other.
C16_OutOfRangeIsolated ==
    /\ C16_BsmsCounted
    /\ C16_BsmsEmitted
    /\ \A a, b \in Vehicles :
          (a # b /\ NeverMet(a, b)) =>
             /\ b \notin DOMAIN vehicle_map[a]
             /\ b \notin DOMAIN outgoing_cwms[a]
             /\ b \notin log.warned[a]

\* a run has ended in which the two vehicles were never in range of each other
\* and both have emitted a BSM
C16_IsolatedRunEnded ==
    /\ pc.step = "stopped"
    /\ NeverMet(Fleet[1], Fleet[2])
    /\ \A v \in Vehicles : log.bsm_count[v] >= 1
    /\ network_sim.total_packets >= 2

-----------------------------------------------------------------------------
(* C17 *)

\* with PACKET_LOSS = 1.0 nothing is pending, queued or believed, every call of
\* broadcast_message was a drop and no CWM was issued
C17_EverythingDropped ==
    CONFIG.PACKET_LOSS = 100 =>
       /\ network_sim.all_messages = <<>>
       /\ network_sim.lost_packets = network_sim.total_packets
       /\ \A v \in Vehicles :
             /\ incoming_messages[v] = <<>>
             /\ vehicle_map[v] = EmptyDict
             /\ log.warned[v] = {}
       /\ total_cwm_count = 0

\* BSMs are still emitted: each emission raises total_bsm_count and the medium's
\* total_packets, and a run longer than the BSM interval ends with both above 0
C17_BsmsStillSent ==
    /\ (last_step.op = "bsm" /\ last_step.branch = "sent")
          => total_bsm_count > 0 /\ network_sim.total_packets > 0
    /\ (pc.step = "stopped" /\ duration > CONFIG.BSM_INTERVAL)
          => total_bsm_count >= Len(Fleet)

\* with PACKET_LOSS = 0 no call of broadcast_message was a drop
C17_NothingDropped ==
    CONFIG.PACKET_LOSS = 0 => network_sim.lost_packets = 0

\* C17: with packet loss probability 1.0 every enqueue is dropped (the pending
\* set, every inbound queue and every belief-map stay empty, lost_packets equals
\* total_packets, no CWM is issued) while BSMs are still sent and counted; with
\* packet loss probability 0 lost_packets stays 0.
C17_LossExtremes ==
    C17_EverythingDropped /\ C17_BsmsStillSent /\ C17_NothingDropped

\* over the medium that loses everything, both vehicles have sent a BSM and
\* both were dropped
C17_AllLost ==
    /\ CONFIG.PACKET_LOSS = 100
    /\ total_bsm_count >= 2
    /\ network_sim.lost_packets >= 2

-----------------------------------------------------------------------------
(* C18 *)

\* a step of the BSM branch for the current vehicle in which a BSM was sent
BsmEmitted == last_step'.op = "bsm" /\ last_step'.branch = "sent" /\ At("bsm")

\* a step of the BSM branch for the current vehicle in which none was sent
BsmWithheld == last_step'.op = "bsm" /\ last_step'.branch = "none" /\ At("bsm")

\* a BSM is emitted only when at least BSM_INTERVAL has passed since the last
\* one, the emission sets last_bsm_time to the time of the tick and is counted
\* once; none is emitted only when at most BSM_INTERVAL has passed (exactly
\* BSM_INTERVAL only by rounding)
C18_EmissionRule ==
    /\ BsmEmitted =>
          /\ env_now - last_bsm_time[Current] >= CONFIG.BSM_INTERVAL
          /\ last_bsm_time' = [last_bsm_time EXCEPT ![Current] = env_now]
          /\ log'.bsm_count[Current] = log.bsm_count[Current] + 1
          /\ total_bsm_count' = total_bsm_count + 1
    /\ BsmWithheld =>
          /\ env_now - last_bsm_time[Current] <= CONFIG.BSM_INTERVAL
          /\ UNCHANGED <<last_bsm_time, log, total_bsm_count>>
    /\ (BsmEmitted \/ BsmWithheld \/ UNCHANGED <<last_bsm_time, total_bsm_count>>)

\* after its BSM branch a vehicle is not visited again in the same tick: the
\* loop moves to the next vehicle or to the end of the tick
C18_OncePerTick ==
    (BsmEmitted \/ BsmWithheld) =>
       \/ pc'.step = "process" /\ pc'.idx = pc.idx + 1
       \/ pc'.step = "yield"

\* a run of 100 ticks with a BSM every 10 ticks has ended: each vehicle has
\* emitted 9 to 11 BSMs and no CWM was issued
C18_LoneRunCounts ==
    (pc.step = "stopped" /\ duration = 100 /\ CONFIG.BSM_INTERVAL = 10) =>
       /\ \A v \in Vehicles : log.bsm_count[v] \in 9 .. 11
       /\ total_cwm_count = 0

\* C18: a vehicle emits a BSM in a tick exactly when the time since its last
\* BSM is at least the BSM interval, the emission sets last_bsm_time to the
\* current time, so consecutive BSMs are at least an interval apart and at most
\* one is emitted per vehicle and tick; a vehicle alone for 1.0 s with
\* timestep 0.01 and interval 0.1 emits between 9 and 11 BSMs and no CWM.
C18_BsmCadence ==
    []C18_LoneRunCounts /\ [][C18_EmissionRule /\ C18_OncePerTick]_vars

\* the lone run has ended with BSMs emitted
C18_LoneRunEnded ==
    /\ pc.step = "stopped"
    /\ duration = 100
    /\ CONFIG.BSM_INTERVAL = 10
    /\ log.bsm_count[Fleet[1]] >= 9

-----------------------------------------------------------------------------
(* C19 *)

\* the real roots of p[1] * t^2 + p[2] * t + p[3] (none when all of p is 0)
real_roots(p) ==
    LET disc == p[2] * p[2] - 4 * p[1] * p[3]
    IN IF p[1] # 0
       THEN IF p[3] = 0
            THEN {Root(p[2], 0, 1, p[1]), Root(0, 0, 1, 1)}
            ELSE IF disc >= 0
                 THEN {Root(p[2], disc, 1, 2 * p[1]), Root(p[2], disc, -1, 2 * p[1])}
                 ELSE {}
       ELSE IF p[2] # 0 THEN {Root(p[3], 0, 1, p[2])} ELSE {}

\* the strictly positive real roots
positive_real_roots(p) ==
    {q \in real_roots(p) : q.d >= 0 /\ NumSign(q) * Sign(q.a) > 0}

\* two roots of one polynomial with the same value
SameValue(q, o) ==
    q.b = o.b /\ q.d = o.d /\ q.a = o.a /\ (q.s = o.s \/ q.d = 0)

\* q <= o for the two roots (-b +- sqrt(d)) / a of one quadratic
Precedes(q, o) ==
    \/ SameValue(q, o)
    \/ q.a > 0 /\ q.s = -1
    \/ q.a < 0 /\ q.s = 1

\* the peer and the polynomial of the call of compute_ttc kept in last_step
TtcPolynomial ==
    coeff(last_step.vehicle, vehicle_map[last_step.vehicle][last_step.branch])

\* C19: whenever the gap polynomial has a strictly positive real root,
\* compute_ttc returns the smallest one: the value returned is a positive real
\* root and no positive real root is smaller, also when both roots are
\* positive and when the leading coefficient is zero.
C19_SmallestPositiveRoot ==
    (last_step.op = "compute_ttc" /\ positive_real_roots(TtcPolynomial) # {}) =>
       /\ last_step.message # <<>>
       /\ \E q \in positive_real_roots(TtcPolynomial) :
             /\ SameValue(last_step.message[1], q)
             /\ \A o \in positive_real_roots(TtcPolynomial) : Precedes(q, o)

-----------------------------------------------------------------------------
(* C20 *)

\* the gap polynomial of the first vehicle and the peer it believes in has no
\* strictly positive real root
NoPositiveRealRoot ==
    /\ Fleet[2] \in DOMAIN vehicle_map[Fleet[1]]
    /\ positive_real_roots(coeff(Fleet[1], vehicle_map[Fleet[1]][Fleet[2]])) = {}

\* C20: when the gap polynomial has no strictly positive real root (both roots
\* non-positive, complex roots only, or all coefficients zero) compute_ttc
\* returns no TTC, the detector returns no CWM and emergency braking is not
\* engaged because of that peer.
C20_NoRootNoWarning ==
    NoPositiveRealRoot =>
       /\ (last_step.op = "compute_ttc" /\ last_step.vehicle = Fleet[1])
             => last_step.message = <<>>
       /\ (last_step.op = "detect" /\ last_step.vehicle = Fleet[1])
             => /\ last_step.branch = "none"
                /\ Fleet[2] \notin log.warned[Fleet[1]]
                /\ emergency_braking[Fleet[1]] = (acceleration[Fleet[1]] < 0)

-----------------------------------------------------------------------------
(* C21 *)

\* the peer the first vehicle believes in is level with it or behind it, or
\* the two are more than a vehicle width apart sideways
NotAhead ==
    /\ Fleet[2] \in DOMAIN vehicle_map[Fleet[1]]
    /\ LET peer == vehicle_map[Fleet[1]][Fleet[2]]
           apart == IF peer.position_y > position_y[Fleet[1]]
                    THEN peer.position_y - position_y[Fleet[1]]
                    ELSE position_y[Fleet[1]] - peer.position_y
       IN \/ peer.position_x <= position[Fleet[1]]
          \/ apart > CONFIG.VEHICLE_WIDTH

\* C21: the detector considers only believed peers strictly ahead in x whose
\* lateral extent overlaps the vehicle's own: for a peer level, behind or in a
\* non-overlapping lane the detection returns nothing, no CWM about the peer is
\* issued and emergency braking is not engaged, whatever the kinematics.
C21_OnlyPeersAheadInLane ==
    (NotAhead /\ last_step.op = "detect" /\ last_step.vehicle = Fleet[1]) =>
       /\ last_step.branch = "none"
       /\ Fleet[2] \notin log.warned[Fleet[1]]
       /\ total_cwm_count = 0
       /\ emergency_braking[Fleet[1]] = (acceleration[Fleet[1]] < 0)

\* the detection has passed over a peer in another lane that the vehicle is
\* closing in on with a TTC below the threshold
C21_PassedOver ==
    /\ NotAhead
    /\ last_step.op = "detect"
    /\ last_step.vehicle = Fleet[1]
    /\ vehicle_map[Fleet[1]][Fleet[2]].position_x > position[Fleet[1]]
    /\ LET ttc == compute_ttc(Fleet[1], vehicle_map[Fleet[1]][Fleet[2]])
       IN ttc # <<>> /\ Below(ttc[1], CONFIG.COLLISION_TIME_THRESHOLD)

-----------------------------------------------------------------------------
(* C22 *)

\* a step in which a vehicle handed a BSM or a CWM to Protocol.send
MessageSent ==
    \/ At("bsm") /\ last_step'.op = "bsm" /\ last_step'.branch = "sent"
    \/ At("detect") /\ last_step'.op = "detect" /\ last_step'.branch = "cwm"

\* whichever message observers raise, all of them are called, the message is
\* counted and handed to the medium, and the loop goes on with the vehicle's
\* next step or the next vehicle
C22_MessageObservers ==
    MessageSent =>
       /\ log'.message_calls = log.message_calls + Len(callbacks.message_callbacks)
       /\ total_bsm_count' + total_cwm_count' = total_bsm_count + total_cwm_count + 1
       /\ network_sim'.total_packets = network_sim.total_packets + 1
       /\ pc'.step \in {"bsm", "process", "yield"}

\* whichever tick observers raise, all of them are called and the clock
\* advances by one tick
C22_TickObservers ==
    (At("yield") /\ last_step'.op = "yield") =>
       /\ log'.update_calls = log.update_calls + Len(callbacks.update_callbacks)
       /\ env_now' = env_now + CONFIG.SIMULATION_TIMESTEP
       /\ pc'.step \in {"physics", "stopped"}

\* C22: an exception raised by a message observer or a tick observer does not
\* abort the tick: the remaining observers are still called, the remaining
\* vehicles are still processed, the BSM or CWM that triggered the callback
\* is still handed to the medium and counted, and the clock advances.
C22_ObserverFailuresContained ==
    [][C22_MessageObservers /\ C22_TickObservers]_vars

\* the first of two message observers has just raised for the first vehicle's
\* BSM, and the loop is at the second vehicle
C22_ObserverRaised ==
    /\ last_step.op = "bsm"
    /\ last_step.branch = "sent"
    /\ last_step.vehicle = Fleet[1]
    /\ 1 \in log.raised
    /\ Len(callbacks.message_callbacks) = 2
    /\ pc = [step |-> "process", idx |-> 2]

-----------------------------------------------------------------------------
(* C23 *)

\* every pending message carries the simulated time of the tick it was handed
\* to the medium in
C23_MessagesStampedWithSimulatedClock ==
    \A i \in DOMAIN network_sim.all_messages :
       network_sim.all_messages[i].message.timestamp = network_sim.all_messages[i].tick

\* every belief carries the simulated time of the tick it was recorded in, so
\* that its age at a prune is a difference of simulated times
C23_BeliefsStampedWithSimulatedClock ==
    \A v \in Vehicles : \A id \in DOMAIN vehicle_map[v] :
       vehicle_map[v][id].timestamp <= env_now
       /\ (last_step.op = "process" /\ last_step.vehicle = v
            /\ last_step.branch = "bsm" /\ last_step.message[1].vehicle_id = id
              => vehicle_map[v][id].timestamp = env_now)

\* C23: a run is determined by the spawn list, the configuration and the
\* outcomes of the loss sampler: every message timestamp and every timer
\* decision (retransmit, connection reap, belief-map prune) is taken from the
\* simulated clock, so nothing in the state depends on the wall clock; in
\* particular every pending message and every belief is stamped with the
\* simulated time of its tick.
C23_SimulatedClockOnly ==
    C23_MessagesStampedWithSimulatedClock /\ C23_BeliefsStampedWithSimulatedClock

-----------------------------------------------------------------------------
(* C24 *)

\* message a goes before message b: EMERGENCY before NORMAL, and within one
\* priority the smaller timestamp first
GoesBefore(a, b) ==
    \/ a.priority = EMERGENCY /\ b.priority = NORMAL
    \/ a.priority = b.priority /\ a.timestamp < b.timestamp

\* what Protocol.process takes from the queue goes before, or level with,
\* everything that was queued with it
C24_DequeuedGoesFirst ==
    (At("process") /\ last_step'.op = "process") =>
       /\ incoming_messages[Current] # <<>>
       /\ \A i \in DOMAIN incoming_messages[Current] :
             ~GoesBefore(incoming_messages[Current][i], last_step'.message[1])

\* C24: from a vehicle's inbound queue process always dequeues an EMERGENCY
\* message (CWM) before any NORMAL message (BSM, ACK) queued at the same time,
\* whatever the timestamps and the arrival order, and among messages of equal
\* priority the one with the smaller timestamp first.
C24_EmergencyFirst == [][C24_DequeuedGoesFirst]_vars

-----------------------------------------------------------------------------
(* C25 *)

\* the number of ticks executed so far: one per multiple of the timestep that
\* the loop has completed
TicksDone == env_now \div CONFIG.SIMULATION_TIMESTEP

\* C25: run(duration) terminates with the simulated clock equal to duration
\* after one tick at each multiple of the timestep below duration, and no tick
\* blocks or fails: the loop is never left by an exception, the clock never
\* passes duration, and a run that has stopped has its clock at duration.
C25_RunCompletes ==
    /\ pc.step # "raised"
    /\ env_now <= duration
    /\ pc.step = "stopped" =>
          env_now = duration /\ TicksDone * CONFIG.SIMULATION_TIMESTEP = duration

-----------------------------------------------------------------------------
(* C26 *)

\* the sequence numbers of the CWMs queued on a connection, head first
QueuedSequenceNumbers(cwm_connection) ==
    [i \in 1..Len(cwm_connection.cwms) |-> cwm_connection.cwms[i].sequence_number]

\* C26: on every connection with unacknowledged CWMs the head carries the
\* connection's send_seq_num and each queued CWM carries the number after
\* its predecessor's, also when further CWMs were issued for the peer before
\* the head was acknowledged.
C26_QueuedNumbersConsecutive ==
    \A v \in Vehicles : \A peer \in DOMAIN outgoing_cwms[v] :
        LET cwm_connection == outgoing_cwms[v][peer]
            numbers == QueuedSequenceNumbers(cwm_connection)
        IN \A i \in DOMAIN numbers :
              numbers[i] = cwm_connection.send_seq_num + (i - 1)

-----------------------------------------------------------------------------
(* C27 *)

\* C27: within a tick physics and delivery come before any vehicle's step,
\* and each vehicle's steps run in the order process, collision detection
\* (with the CWM send), BSM send, manage: detection is entered from the
\* vehicle's process step, and manage from the vehicle's BSM step.
C27_ManageAfterDetectAndBsm ==
    /\ last_step.op = "physics" => pc.step = "deliver"
    /\ last_step.op = "deliver" => pc.step = "process" /\ pc.idx = 1
    /\ pc.step = "detect" =>
          last_step.op \in {"process", "process_done"} /\ last_step.vehicle = Current
    /\ pc.step = "manage" =>
          last_step.op = "bsm" /\ last_step.vehicle = Current

-----------------------------------------------------------------------------
(* A run in which both vehicles warn each other: V001 drives up to the parked *)
(* V002 at 20 m/s, warns it 10 m behind it and is past it one tick later        *)

PassingRuns ==
    { [position |-> [v \in Vehicles |-> IF v = Fleet[1] THEN 0 ELSE 90],
       position_y |-> [v \in Vehicles |-> 0],
       velocity |-> [v \in Vehicles |-> IF v = Fleet[1] THEN 20 ELSE 0],
       duration |-> 7] }

PassingInit == Start(LosslessConfigs, PassingRuns)

PassingSpec == PassingInit /\ [][Tick]_vars

-----------------------------------------------------------------------------
(* C28 *)

\* the message Protocol.process is about to dequeue is an ACK for the
\* send_seq_num of an existing connection to its sender
MatchingAckNext ==
    /\ At("process")
    /\ incoming_messages[Current] # <<>>
    /\ LET ack == HeapTop(incoming_messages[Current])
       IN /\ ack.message_type = "ACK"
          /\ ack.vehicle_id \in DOMAIN outgoing_cwms[Current]
          /\ ack_matches(ack, outgoing_cwms[Current][ack.vehicle_id].send_seq_num)

\* C28: whenever an ACK with sequence number equal to send_seq_num is
\* processed, the connection's queue of unacknowledged CWMs is non-empty, so
\* the dequeue of the head never runs on an empty queue and process never
\* fails.
C28_MatchingAckFindsCwm ==
    /\ MatchingAckNext =>
          LET ack == HeapTop(incoming_messages[Current])
          IN Len(outgoing_cwms[Current][ack.vehicle_id].cwms) > 0
    /\ last_step.branch # "ack_empty_queue"

-----------------------------------------------------------------------------
(* C29 *)

\* the step is vehicle.manage of the current vehicle
ManageStep == At("manage") /\ pc'.step = "detect"

\* manage deletes exactly the connections of the current vehicle whose queue
\* is empty and whose last use lies more than CONNECTION_TIME back
C29_DeletesIdleEmpty ==
    ManageStep =>
        \A peer \in DOMAIN outgoing_cwms[Current] :
            LET cwm_connection == outgoing_cwms[Current][peer]
            IN peer \notin DOMAIN outgoing_cwms'[Current]
               <=> /\ Len(cwm_connection.cwms) = 0
                   /\ now - cwm_connection.last_use > CONFIG.CONNECTION_TIME

\* a connection that appears in a table starts at sequence numbers 0 and 0,
\* whatever a deleted connection to the same peer had reached (the step that
\* creates it for an inbound CWM numbered 0 also counts that CWM)
C29_CreatedAtZero ==
    \A v \in Vehicles : \A peer \in DOMAIN outgoing_cwms'[v] \ DOMAIN outgoing_cwms[v] :
        LET cwm_connection == outgoing_cwms'[v][peer]
        IN /\ cwm_connection.send_seq_num = 0
           /\ cwm_connection.recv_seq_num =
                 IF last_step'.branch = "cwm_expected" THEN 1 ELSE 0

\* C29: manage deletes a connection exactly when its queue of unacknowledged
\* CWMs is empty and now - last_use exceeds the idle time allowed; the
\* sequence numbers go with it, and a connection created later for the same
\* peer starts at 0 and 0.
C29_IdleConnectionsReaped == [][C29_DeletesIdleEmpty /\ C29_CreatedAtZero]_vars

\* a connection over which a CWM was sent and acknowledged is back at
\* send_seq_num 0: it was deleted by manage and created again
C29_Recreated ==
    \E v \in Vehicles : \E peer \in log.warned[v] \cap DOMAIN outgoing_cwms[v] :
        /\ outgoing_cwms[v][peer].cwms = <<>>
        /\ outgoing_cwms[v][peer].send_seq_num = 0

-----------------------------------------------------------------------------
(* C30 *)

\* the connections of the current vehicle whose head CWM is due for
\* retransmission
Due ==
    {peer \in DOMAIN outgoing_cwms[Current] :
        /\ Len(outgoing_cwms[Current][peer].cwms) > 0
        /\ now - outgoing_cwms[Current][peer].transmit_time > CONFIG.RETRANSMIT}

\* the head of the queue with the time of the retransmission
Retransmitted(cwm_connection) == [Head(cwm_connection.cwms) EXCEPT !.timestamp = now]

\* C30: manage retransmits the head CWM of a connection exactly when the
\* queue is non-empty and now - transmit_time exceeds the retransmission
\* time: one broadcast per such connection and none for the others; what is
\* broadcast is the head with its sequence number and target; the head's
\* timestamp and transmit_time become now, and last_use, send_seq_num,
\* recv_seq_num and the rest of the queue stay as they were.
C30_ManageRetransmits ==
    ManageStep =>
        /\ network_sim'.total_packets = network_sim.total_packets + Cardinality(Due)
        /\ \A peer \in DOMAIN outgoing_cwms[Current] :
              LET cwm_connection == outgoing_cwms[Current][peer]
              IN /\ peer \in Due =>
                      /\ outgoing_cwms'[Current][peer] =
                            [cwm_connection EXCEPT
                                !.transmit_time = now,
                                !.cwms = <<Retransmitted(cwm_connection)>> \o Tail(@)]
                      /\ \/ network_sim'.lost_packets > network_sim.lost_packets
                         \/ \E i \in DOMAIN network_sim'.all_messages :
                               LET entry == network_sim'.all_messages[i]
                               IN /\ entry.message = Retransmitted(cwm_connection)
                                  /\ entry.message_hash =
                                        get_message_hash(Retransmitted(cwm_connection))
                                  /\ entry.send_vehicle = Current
                 /\ peer \notin Due /\ Len(cwm_connection.cwms) > 0 =>
                      outgoing_cwms'[Current][peer] = cwm_connection

C30_RetransmitWhenDue == [][C30_ManageRetransmits]_vars

\* manage has just retransmitted: the vehicle's first CWM to the peer is
\* still unacknowledged and is in the medium again, before the vehicle's
\* detection of this tick
C30_HeadRetransmitted ==
    /\ last_step.op = "manage"
    /\ \E peer \in DOMAIN outgoing_cwms[last_step.vehicle] :
          LET cwm_connection == outgoing_cwms[last_step.vehicle][peer]
          IN /\ cwm_connection.send_seq_num = 0
             /\ Len(cwm_connection.cwms) > 0
             /\ cwm_connection.transmit_time = now
             /\ \E i \in DOMAIN network_sim.all_messages :
                   /\ network_sim.all_messages[i].send_vehicle = last_step.vehicle
                   /\ network_sim.all_messages[i].tick = env_now
                   /\ network_sim.all_messages[i].message = Head(cwm_connection.cwms)

-----------------------------------------------------------------------------
(* A run in which V001 stays behind the parked V002 and within its range for  *)
(* the whole run, so that it can warn V002 in several ticks, with the detector *)
(* left open as in Spec                                                        *)

FollowingRuns ==
    { [position |-> [v \in Vehicles |-> IF v = Fleet[1] THEN 200 ELSE 300],
       position_y |-> [v \in Vehicles |-> 0],
       velocity |-> [v \in Vehicles |-> IF v = Fleet[1] THEN 12 ELSE 0],
       duration |-> 7] }

FollowingInit == Start(LosslessConfigs, FollowingRuns)

FollowingSpec == FollowingInit /\ [][Next]_vars

-----------------------------------------------------------------------------
(* C31 *)

\* the recv_seq_num a vehicle holds for a peer, a connection being created
\* at 0 when the first CWM of the peer is processed
RecvSeqNum(conns, peer) == GetOrCreate(conns, peer).recv_seq_num

\* Protocol.process is about to dequeue a CWM numbered above the
\* recv_seq_num held for its sender
FutureCwmNext ==
    /\ At("process")
    /\ incoming_messages[Current] # <<>>
    /\ LET cwm == HeapTop(incoming_messages[Current])
       IN /\ cwm.message_type = "CWM"
          /\ cwm.sequence_number > RecvSeqNum(outgoing_cwms[Current], cwm.vehicle_id)

\* C31: a CWM whose sequence number is greater than the recv_seq_num for
\* its sender is discarded: nothing is handed to the medium (no ACK),
\* recv_seq_num stays, the CWM does not reach the application layer, and
\* process stays in its loop with the CWM taken off the queue.
C31_FutureCwmStep ==
    FutureCwmNext /\ incoming_messages' # incoming_messages =>
        LET cwm == HeapTop(incoming_messages[Current])
        IN /\ network_sim' = network_sim
           /\ RecvSeqNum(outgoing_cwms'[Current], cwm.vehicle_id)
                 = RecvSeqNum(outgoing_cwms[Current], cwm.vehicle_id)
           /\ app_cwms' = app_cwms
           /\ vehicle_map' = vehicle_map
           /\ incoming_messages' = [incoming_messages EXCEPT ![Current] = HeapPop(@)]
           /\ pc' = pc

C31_FutureCwmDiscarded == [][C31_FutureCwmStep]_vars

\* process has just discarded a CWM numbered above recv_seq_num
C31_FutureCwmProcessed ==
    /\ last_step.op = "process"
    /\ last_step.message[1].message_type = "CWM"
    /\ last_step.message[1].sequence_number
          > RecvSeqNum(outgoing_cwms[last_step.vehicle], last_step.message[1].vehicle_id)

-----------------------------------------------------------------------------
(* C32 *)

\* C32: of the vehicles receive() is called on in a delivery phase, a CWM or
\* an ACK is queued only by the vehicle it names as its target, whose other
\* state receive() leaves alone, and a BSM is queued by every one of them.
C32_DeliveryQueues ==
    At("deliver") /\ pc'.step = "process" =>
        /\ \A i \in DOMAIN last_step'.message :
              LET call == last_step'.message[i]
              IN IF HasTarget(call.message)
                 THEN call.vehicle # call.message.target_vehicle_id =>
                        ~Queued(incoming_messages', call.vehicle, call.message)
                 ELSE Queued(incoming_messages', call.vehicle, call.message)
        /\ outgoing_cwms' = outgoing_cwms
        /\ vehicle_map' = vehicle_map

C32_QueuedByTargetOnly == [][C32_DeliveryQueues]_vars

-----------------------------------------------------------------------------
(* C33 *)

\* C33: when a matching ACK is processed, the head of the queue is removed;
\* if a CWM is left, it is handed to the medium in the same step, with its
\* timestamp and the connection's transmit_time set to the current time and
\* with the digest of the CWM as stamped; if none is left, nothing is handed
\* to the medium.
C33_MatchingAckStep ==
    MatchingAckNext /\ incoming_messages' # incoming_messages =>
        LET peer == HeapTop(incoming_messages[Current]).vehicle_id
            cwm_connection == outgoing_cwms[Current][peer]
        IN IF Len(cwm_connection.cwms) > 1
           THEN LET next_cwm == [cwm_connection.cwms[2] EXCEPT !.timestamp = now]
                IN /\ outgoing_cwms'[Current][peer].cwms =
                         <<next_cwm>> \o Tail(Tail(cwm_connection.cwms))
                   /\ outgoing_cwms'[Current][peer].transmit_time = now
                   /\ now' = now
                   /\ network_sim'.total_packets = network_sim.total_packets + 1
                   /\ \/ network_sim'.lost_packets > network_sim.lost_packets
                      \/ \E i \in DOMAIN network_sim'.all_messages :
                            LET entry == network_sim'.all_messages[i]
                            IN /\ entry.message = next_cwm
                               /\ entry.message_hash = get_message_hash(next_cwm)
                               /\ entry.send_vehicle = Current
           ELSE network_sim' = network_sim

C33_NextCwmTransmitted == [][C33_MatchingAckStep]_vars

\* a matching ACK has just moved a queued CWM to the head and into the medium
C33_NextCwmOnAir ==
    /\ last_step.op = "process"
    /\ last_step.message[1].message_type = "ACK"
    /\ last_step.message[1].vehicle_id \in DOMAIN outgoing_cwms[last_step.vehicle]
    /\ LET cwm_connection ==
              outgoing_cwms[last_step.vehicle][last_step.message[1].vehicle_id]
       IN /\ cwm_connection.send_seq_num = last_step.message[1].sequence_number + 1
          /\ Len(cwm_connection.cwms) > 0
          /\ \E i \in DOMAIN network_sim.all_messages :
                /\ network_sim.all_messages[i].send_vehicle = last_step.vehicle
                /\ network_sim.all_messages[i].tick = env_now
                /\ network_sim.all_messages[i].message = Head(cwm_connection.cwms)

-----------------------------------------------------------------------------
(* C34 *)

\* the peer the first vehicle believes in is ahead of it in its lane and the
\* two are predicted to touch in less than COLLISION_TIME_THRESHOLD: the gap
\* polynomial has a strictly positive real root below the threshold
Dangerous ==
    /\ Fleet[2] \in DOMAIN vehicle_map[Fleet[1]]
    /\ ~NotAhead
    /\ \E q \in positive_real_roots(coeff(Fleet[1], vehicle_map[Fleet[1]][Fleet[2]])) :
          Below(q, CONFIG.COLLISION_TIME_THRESHOLD)

\* C34: a call of the detector returns a CWM exactly when a front peer in the
\* lane has a TTC below the threshold; the CWM targets that peer and carries
\* the send_seq_num of the connection to it (0 without one), and the vehicle
\* is put into emergency braking with target velocity 0; when nothing is
\* returned emergency braking and the target velocity are as they were.
C34_DetectorResult ==
    (last_step.op = "detect" /\ last_step.vehicle = Fleet[1]) =>
        IF Dangerous
        THEN /\ last_step.branch = "cwm"
             /\ Len(last_step.message) = 1
             /\ last_step.message[1].target_vehicle_id = Fleet[2]
             /\ last_step.message[1].sequence_number = 0
             /\ emergency_braking[Fleet[1]]
             /\ target_velocity[Fleet[1]] = 0
        ELSE /\ last_step.branch = "none"
             /\ emergency_braking[Fleet[1]] = (acceleration[Fleet[1]] < 0)
             /\ target_velocity[Fleet[1]] =
                   IF acceleration[Fleet[1]] < 0 THEN 0 ELSE velocity[Fleet[1]]

-----------------------------------------------------------------------------
(* C35 *)

\* C35: processing a BSM of peer Q overwrites the entry for Q of the
\* receiver's belief-map with the BSM's position, velocity and acceleration
\* and with the BSM's own timestamp, and leaves the entries of the other
\* peers as they were.
C35_BsmStep ==
    (/\ At("process")
     /\ incoming_messages[Current] # <<>>
     /\ HeapTop(incoming_messages[Current]).message_type = "BSM"
     /\ incoming_messages' # incoming_messages) =>
        LET bsm == HeapTop(incoming_messages[Current])
        IN /\ vehicle_map'[Current] =
                 DictSet(vehicle_map[Current], bsm.vehicle_id,
                         [timestamp |-> bsm.timestamp,
                          position_x |-> bsm.position_x,
                          position_y |-> bsm.position_y,
                          velocity |-> bsm.velocity,
                          acceleration |-> bsm.acceleration])
           /\ \A v \in Vehicles \ {Current} : vehicle_map'[v] = vehicle_map[v]

C35_BeliefIsTheBsm == [][C35_BsmStep]_vars

-----------------------------------------------------------------------------
(* C36 *)

\* C36: whenever S holds a connection for P and P one for S, the
\* recv_seq_num P holds for S is the send_seq_num S holds for P or one more,
\* also after one of the two connections was deleted and created again.
C36_SequenceNumbersAgree ==
    \A S \in Vehicles : \A P \in Vehicles \ {S} :
        (P \in DOMAIN outgoing_cwms[S] /\ S \in DOMAIN outgoing_cwms[P]) =>
            outgoing_cwms[P][S].recv_seq_num - outgoing_cwms[S][P].send_seq_num
                \in {0, 1}

-----------------------------------------------------------------------------
(* C37 *)

\* the CWMs queued on some connection of S
Unacknowledged(S) ==
    UNION {{outgoing_cwms[S][P].cwms[i] : i \in DOMAIN outgoing_cwms[S][P].cwms} :
              P \in DOMAIN outgoing_cwms[S]}

\* the CWMs created so far are numbered 1 .. total_cwm_count in oid; those
\* no longer queued anywhere have been removed from their queue
Removed(oid) ==
    /\ oid \in 1 .. total_cwm_count
    /\ \A S \in Vehicles : \A cwm \in Unacknowledged(S) : cwm.oid # oid

\* the head of the queue can still be acknowledged: an ACK carries the
\* number of the CWM it answers and removes the head only when that number is
\* send_seq_num, which never decreases while the connection exists
HeadCanBeAcknowledged(cwm_connection) ==
    Len(cwm_connection.cwms) > 0 =>
        Head(cwm_connection.cwms).sequence_number >= cwm_connection.send_seq_num

\* C37: every CWM appended to a queue is returned once to the application
\* layer of its target, acknowledged and removed, and no CWM stays at the
\* head forever.  In a run that has not ended yet this means: no CWM was
\* returned twice, every CWM removed by an ACK was returned to its target,
\* and the head of every queue can still be acknowledged.
C37_StreamProgress ==
    /\ \A P \in Vehicles : \A i, j \in DOMAIN app_cwms[P] :
          app_cwms[P][i].oid = app_cwms[P][j].oid => i = j
    /\ \A oid \in 1 .. total_cwm_count :
          Removed(oid) =>
              \E P \in Vehicles : \E i \in DOMAIN app_cwms[P] : app_cwms[P][i].oid = oid
    /\ \A S \in Vehicles : \A P \in DOMAIN outgoing_cwms[S] :
          HeadCanBeAcknowledged(outgoing_cwms[S][P])

-----------------------------------------------------------------------------
(* C38 *)

\* the vehicles whose process step of the current tick is over: those before
\* the current one in the fleet, the current one once it is past the step,
\* and all of them when the per-vehicle part of the tick has been left
Processed ==
    {Fleet[i] : i \in {j \in DOMAIN Fleet :
        \/ pc.step \in {"process", "manage", "detect", "bsm"} /\ j < pc.idx
        \/ pc.step \in {"manage", "detect", "bsm"} /\ j = pc.idx
        \/ pc.step \notin {"process", "manage", "detect", "bsm", "deliver"}}}

\* C38: after a vehicle's process step its inbound queue is empty, so every
\* message delivered in a tick is consumed in that tick and none is left for
\* a later one.
C38_InboxDrained == \A v \in Processed : incoming_messages[v] = <<>>

\* a vehicle is past its process step in a tick in which it processed a CWM
\* (its ACK of this tick is in the medium)
C38_DrainedAfterCwm ==
    /\ At("manage")
    /\ \E i \in DOMAIN network_sim.all_messages :
          /\ network_sim.all_messages[i].send_vehicle = Current
          /\ network_sim.all_messages[i].tick = env_now
          /\ network_sim.all_messages[i].message.message_type = "ACK"

-----------------------------------------------------------------------------
(* C39 *)

\* the packets the loss sampler let through so far
Surviving(net) == net.total_packets - net.lost_packets

\* C39: between two delivery phases every enqueue call that the loss sampler
\* did not drop adds one entry to the pending set: no entry is overwritten by
\* a later message with the same digest.
C39_EnqueueStep ==
    ~At("deliver") =>
        Len(network_sim'.all_messages) - Len(network_sim.all_messages)
            = Surviving(network_sim') - Surviving(network_sim)

=============================================================================
